---- MODULE Spec2Model ----
(***************************************************************************)
(* Data-schema builder, unchecked tree, validation pass and checked        *)
(* conversion of wot-td (src/src/builder/data_schema.rs).                  *)
(*                                                                         *)
(* Option<T> is a sequence of length at most one: None is <<>> and        *)
(* Some(x) is <<x>>.  Vec<T> is a sequence.  A map is a function from its  *)
(* key set.  f64 is a record [nan, v]: either NaN or a finite integer v.   *)
(***************************************************************************)
EXTENDS Integers, Sequences, FiniteSets, TLC

VARIABLES
    schema,       \* the unchecked (or partial) schema tree handed to check / try_from
    calls,        \* the call stack of CheckableDataSchema::check frames
    checkResult,  \* None while check has not returned, else Some(Ok or the Error)
    converted,    \* None until TryFrom has run, else Some(its Result)
    builder,      \* the builder value the running code holds, None when it holds none
    pending,      \* the calls of append, set_item, property and one_of whose
                  \* closure is running, outermost first
    built         \* the schema the last conversion of a builder returned, if any

checkVars == <<calls, checkResult>>
buildVars == <<builder, pending, built>>
vars == <<schema, calls, checkResult, converted, builder, pending, built>>

----------------------------------------------------------------------------
(* Bounds of the model *)

\* deepest nesting of the schema trees validation and conversion are run on
MaxDepth == 2
\* the finite f64 / i64 bound values are 1..MaxVal
MaxVal == 2
\* ext / ext_with calls on one builder
MaxExt == 2
\* children (items, properties, one_of members) pushed into one builder
MaxItems == 2
\* calls of ext, of tuple_ext, vec_ext and object_ext, of the plain field
\* setters (unit, minimum, min_items, ...), of enumeration and of the setters
\* that take a closure (append, set_item, property, one_of) made from the
\* start of a builder to its conversion, those made on the builders of the
\* closures included
MaxSetters == 2
\* enumeration values pushed into one builder
MaxEnum == 2
\* deepest nesting of closures of append, set_item, property and one_of
MaxBuildDepth == 2

----------------------------------------------------------------------------
(* Option, f64, Minimum / Maximum *)

None == <<>>
Some(x) == <<x>>
IsSome(o) == o # <<>>
Unwrap(o) == o[1]

NaN == [nan |-> TRUE, v |-> 0]
F(v) == [nan |-> FALSE, v |-> v]

\* f64::is_nan
is_nan(x) == x.nan

\* f64::partial_cmp: None when either side is NaN
f64_partial_cmp(a, b) ==
    IF a.nan \/ b.nan THEN "None"
    ELSE IF a.v < b.v THEN "Less"
    ELSE IF a.v = b.v THEN "Equal"
    ELSE "Greater"

\* i64 / u32 partial_cmp: a total order
int_partial_cmp(a, b) ==
    IF a < b THEN "Less" ELSE IF a = b THEN "Equal" ELSE "Greater"

Inclusive(v) == [tag |-> "Inclusive", v |-> v]
Exclusive(v) == [tag |-> "Exclusive", v |-> v]

\* Minimum<f64>::is_nan / Maximum<f64>::is_nan: the wrapped value is NaN
bound_is_nan(b) == is_nan(b.v)

\* PartialOrd<Maximum<T>> for Minimum<T>, given the comparison of the wrapped
\* values: equal values with an exclusive end leave no value in the range
bound_cmp(min, max, inner) ==
    IF inner = "Equal" /\ (min.tag = "Exclusive" \/ max.tag = "Exclusive")
    THEN "Greater"
    ELSE inner

min_partial_cmp_f64(min, max) == bound_cmp(min, max, f64_partial_cmp(min.v, max.v))
min_partial_cmp_i64(min, max) == bound_cmp(min, max, int_partial_cmp(min.v, max.v))

\* faulty variant of f64_le_zero: NaN taken as not above zero
f64_le_zero_or_nan(x) == x.nan \/ x.v <= 0

\* `multiple_of <= 0.` on f64: false for NaN
f64_le_zero(x) == ~x.nan /\ x.v <= 0

----------------------------------------------------------------------------
(* The unchecked schema tree *)

\* UncheckedDataSchema::default()
UncheckedDataSchemaDefault ==
    [ attype |-> None, title |-> None, titles |-> None,
      description |-> None, descriptions |-> None,
      constant |-> None, default |-> None, unit |-> None,
      one_of |-> None, enumeration |-> None,
      read_only |-> FALSE, write_only |-> FALSE,
      format |-> None, subtype |-> None, other |-> <<>> ]

\* PartialDataSchema::default(): no human-readable fields
PartialDataSchemaDefault ==
    [ constant |-> None, default |-> None, unit |-> None,
      one_of |-> None, enumeration |-> None,
      read_only |-> FALSE, write_only |-> FALSE,
      format |-> None, subtype |-> None, other |-> <<>> ]

\* BoxedElemOrVec
Elem(item) == [tag |-> "Elem", elem |-> item]
Vec(items) == [tag |-> "Vec", vec |-> items]

\* UncheckedDataSchemaSubtype variants
ArraySubtype(items, min_items, max_items, other) ==
    [type |-> "Array", items |-> items, min_items |-> min_items,
     max_items |-> max_items, other |-> other]
NumberSubtype(minimum, maximum, multiple_of) ==
    [type |-> "Number", minimum |-> minimum, maximum |-> maximum,
     multiple_of |-> multiple_of]
IntegerSubtype(minimum, maximum, multiple_of) ==
    [type |-> "Integer", minimum |-> minimum, maximum |-> maximum,
     multiple_of |-> multiple_of]
ObjectSubtype(properties, required, other) ==
    [type |-> "Object", properties |-> properties, required |-> required,
     other |-> other]
StringSubtype(min_length, max_length, pattern, content_encoding, content_media_type) ==
    [type |-> "String", min_length |-> min_length, max_length |-> max_length,
     pattern |-> pattern, content_encoding |-> content_encoding,
     content_media_type |-> content_media_type]
BooleanSubtype == [type |-> "Boolean"]
NullSubtype == [type |-> "Null"]

\* the elements of a sequence
Range(s) == {s[i] : i \in 1..Len(s)}

\* all orders in which the values of a map may be iterated (HashMap::values)
ValueOrders(m) ==
    LET keys == DOMAIN m
        n == Cardinality(keys)
    IN  { [i \in 1..n |-> m[p[i]]] :
            p \in {q \in [1..n -> keys] : \A i, j \in 1..n : i # j => q[i] # q[j]} }

\* faulty variant of SubtypeChildOrders: object properties are not visited
SubtypeChildOrdersNoProperties(subtype) ==
    IF subtype = None THEN {<<>>}
    ELSE LET st == Unwrap(subtype) IN
         IF st.type = "Array" /\ st.items # None THEN
            IF Unwrap(st.items).tag = "Elem" THEN {<<Unwrap(st.items).elem>>}
            ELSE {Unwrap(st.items).vec}
         ELSE {<<>>}

\* the children a subtype holds, in the order the code iterates them
\* (array items in order, object properties in any map order)
SubtypeChildOrders(subtype) ==
    IF subtype = None THEN {<<>>}
    ELSE LET st == Unwrap(subtype) IN
         IF st.type = "Array" THEN
            IF st.items = None THEN {<<>>}
            ELSE IF Unwrap(st.items).tag = "Elem" THEN {<<Unwrap(st.items).elem>>}
            ELSE {Unwrap(st.items).vec}
         ELSE IF st.type = "Object" THEN
            IF st.properties = None THEN {<<>>}
            ELSE ValueOrders(Unwrap(st.properties))
         ELSE {<<>>}

OneOfChildren(node) == IF node.one_of = None THEN <<>> ELSE Unwrap(node.one_of)

\* the nodes a node owns: union members, array items, object properties
Kids(node) ==
    (IF node.one_of = <<>> THEN {} ELSE Range(node.one_of[1]))
    \cup
    (IF node.subtype = <<>> THEN {}
     ELSE LET st == node.subtype[1] IN
          IF st.type = "Array" /\ st.items # <<>>
          THEN IF st.items[1].tag = "Elem" THEN {st.items[1].elem}
               ELSE Range(st.items[1].vec)
          ELSE IF st.type = "Object" /\ st.properties # <<>>
          THEN {st.properties[1][k] : k \in DOMAIN st.properties[1]}
          ELSE {})

RECURSIVE Nodes(_)
\* every node of the tree rooted at `node`, the root included
Nodes(node) == {node} \cup UNION {Nodes(c) : c \in Kids(node)}

----------------------------------------------------------------------------
(* Validation pass: CheckableDataSchema::check *)

\* faulty variant of ArrayVerdict: equal item counts rejected too
ArrayVerdictStrict(st) ==
    IF /\ IsSome(st.min_items) /\ IsSome(st.max_items)
       /\ int_partial_cmp(Unwrap(st.min_items), Unwrap(st.max_items))
              \in {"None", "Greater", "Equal"}
    THEN "InvalidMinMax" ELSE "Ok"

\* faulty variant of ArrayVerdict: a missing count compares as incomparable
ArrayVerdictOneSided(st) ==
    IF \/ IsSome(st.min_items) /\ ~IsSome(st.max_items)
       \/ ~IsSome(st.min_items) /\ IsSome(st.max_items)
       \/ /\ IsSome(st.min_items) /\ IsSome(st.max_items)
          /\ int_partial_cmp(Unwrap(st.min_items), Unwrap(st.max_items))
                 \in {"None", "Greater"}
    THEN "InvalidMinMax" ELSE "Ok"

\* the Array arm: min_items against max_items
ArrayVerdict(st) ==
    IF /\ IsSome(st.min_items) /\ IsSome(st.max_items)
       /\ int_partial_cmp(Unwrap(st.min_items), Unwrap(st.max_items)) \in {"None", "Greater"}
    THEN "InvalidMinMax" ELSE "Ok"

\* faulty variant of MultipleOfVerdict: only a negative multiple_of rejected
MultipleOfVerdictNegative(st) ==
    IF IsSome(st.multiple_of) /\ f64_le_zero(Unwrap(st.multiple_of))
       /\ Unwrap(st.multiple_of).v # 0
    THEN "InvalidMultipleOf" ELSE "Ok"

\* the second match of the Number arm: multiple_of <= 0.
MultipleOfVerdict(st) ==
    IF IsSome(st.multiple_of) /\ f64_le_zero(Unwrap(st.multiple_of))
    THEN "InvalidMultipleOf" ELSE "Ok"

\* faulty variant of NumberVerdict: the range compared before the NaN tests
NumberVerdictRangeFirst(st) ==
    IF /\ IsSome(st.minimum) /\ IsSome(st.maximum)
       /\ min_partial_cmp_f64(Unwrap(st.minimum), Unwrap(st.maximum)) \in {"None", "Greater"}
    THEN "InvalidMinMax"
    ELSE IF IsSome(st.minimum) /\ bound_is_nan(Unwrap(st.minimum)) THEN "NanMinMax"
    ELSE IF IsSome(st.maximum) /\ bound_is_nan(Unwrap(st.maximum)) THEN "NanMinMax"
    ELSE MultipleOfVerdict(st)

\* the Number arm: NaN bounds, then the range, then multiple_of
NumberVerdict(st) ==
    IF IsSome(st.minimum) /\ bound_is_nan(Unwrap(st.minimum)) THEN "NanMinMax"
    ELSE IF IsSome(st.maximum) /\ bound_is_nan(Unwrap(st.maximum)) THEN "NanMinMax"
    ELSE IF /\ IsSome(st.minimum) /\ IsSome(st.maximum)
            /\ min_partial_cmp_f64(Unwrap(st.minimum), Unwrap(st.maximum))
                   \in {"None", "Greater"}
    THEN "InvalidMinMax"
    ELSE MultipleOfVerdict(st)

\* faulty variant of IntegerVerdict: integer bounds not compared
IntegerVerdictUnchecked(st) == "Ok"

\* the Integer arm: the range only
IntegerVerdict(st) ==
    IF /\ IsSome(st.minimum) /\ IsSome(st.maximum)
       /\ min_partial_cmp_i64(Unwrap(st.minimum), Unwrap(st.maximum)) \in {"None", "Greater"}
    THEN "InvalidMinMax" ELSE "Ok"

\* faulty variant of SubtypeVerdict: an array that holds items is left to the
\* checks of its items
SubtypeVerdictItemsFirst(st) ==
    IF st.type = "Array" THEN (IF st.items # None THEN "Ok" ELSE ArrayVerdict(st))
    ELSE IF st.type = "Number" THEN NumberVerdict(st)
    ELSE IF st.type = "Integer" THEN IntegerVerdict(st)
    ELSE "Ok"

\* faulty variant of SubtypeVerdict: the lengths of a String are compared as
\* the item counts of an array are
SubtypeVerdictStringChecked(st) ==
    IF st.type = "Array" THEN ArrayVerdict(st)
    ELSE IF st.type = "Number" THEN NumberVerdict(st)
    ELSE IF st.type = "Integer" THEN IntegerVerdict(st)
    ELSE IF /\ st.type = "String" /\ IsSome(st.min_length) /\ IsSome(st.max_length)
            /\ Unwrap(st.min_length) > Unwrap(st.max_length)
    THEN "InvalidMinMax"
    ELSE "Ok"

\* the checks of one subtype inside the loop of check_data_schema_subtype:
\* "Ok" or the error the loop returns with
SubtypeVerdict(st) ==
    IF st.type = "Array" THEN ArrayVerdict(st)
    ELSE IF st.type = "Number" THEN NumberVerdict(st)
    ELSE IF st.type = "Integer" THEN IntegerVerdict(st)
    ELSE "Ok"

\* faulty variant of CheckFrame: the union members of the node are put on the
\* work list as those of its descendants are
CheckFrameMembersPushed(node) ==
    [node |-> node, pc |-> "subtype", subtype |-> node.subtype,
     stack |-> OneOfChildren(node), idx |-> 1]

\* a frame of check(): first check_data_schema_subtype(&self.subtype) with its
\* local work list `stack` and current `subtype`, then check_one_of_schema
\* walking self.one_of from index idx
CheckFrame(node) ==
    [node |-> node, pc |-> "subtype", subtype |-> node.subtype,
     stack |-> <<>>, idx |-> 1]

Top(s) == s[Len(s)]
Pop(s) == SubSeq(s, 1, Len(s) - 1)
SetTop(s, f) == [s EXCEPT ![Len(s)] = f]

\* the caller invokes schema.check()
CheckCall ==
    /\ calls = <<>>
    /\ checkResult = None
    /\ calls' = <<CheckFrame(schema)>>
    /\ UNCHANGED <<schema, checkResult, converted, builder, pending, built>>

\* one iteration of the loop of check_data_schema_subtype
CheckSubtypeLoop ==
    /\ calls # <<>>
    /\ Top(calls).pc = "subtype"
    /\ LET f == Top(calls)
           verdict == IF f.subtype = None THEN "Ok"
                      ELSE SubtypeVerdict(Unwrap(f.subtype))
       IN  IF verdict # "Ok"
           THEN \* return Err(..), propagated by `?` through every caller
                /\ calls' = <<>>
                /\ checkResult' = Some(verdict)
           ELSE \E pushed \in SubtypeChildOrders(f.subtype) :
                  LET stack1 == f.stack \o pushed IN
                  /\ checkResult' = checkResult
                  /\ IF stack1 = <<>>
                     THEN \* stack.pop() is None: break Ok(())
                          calls' = SetTop(calls, [f EXCEPT !.pc = "one_of",
                                                           !.subtype = None])
                     ELSE LET new_data_schema == Top(stack1)
                              stack2 == Pop(stack1) \o OneOfChildren(new_data_schema)
                          IN  calls' = SetTop(calls,
                                  [f EXCEPT !.stack = stack2,
                                            !.subtype = new_data_schema.subtype])
    /\ UNCHANGED <<schema, converted, builder, pending, built>>

\* one step of check_one_of_schema: call check() on the next member, or
\* return Ok(()) from check() when none is left
CheckOneOf ==
    /\ calls # <<>>
    /\ Top(calls).pc = "one_of"
    /\ LET f == Top(calls)
           members == OneOfChildren(f.node)
       IN  IF f.idx <= Len(members)
           THEN /\ calls' = Append(SetTop(calls, [f EXCEPT !.idx = f.idx + 1]),
                                   CheckFrame(members[f.idx]))
                /\ checkResult' = checkResult
           ELSE /\ calls' = Pop(calls)
                /\ checkResult' = IF Len(calls) = 1 THEN Some("Ok") ELSE checkResult
    /\ UNCHANGED <<schema, converted, builder, pending, built>>

----------------------------------------------------------------------------
(* Checked conversion: TryFrom<UncheckedDataSchema> for DataSchema *)

\* the keys that parse as language tags, among the keys the model uses
WellFormedTags == {"en", "it"}
\* str::parse::<LanguageTag>: the parsed tag, kept apart from the raw key
LanguageTag(key) == [tag |-> key]
IsWellFormed(key) == key \in WellFormedTags

\* MultiLanguageBuilder::build: the keys it may fail on (the first key that
\* does not parse, in the iteration order of its map, which is any order)
BuildErrs(multilang) == {k \in DOMAIN multilang : ~IsWellFormed(k)}
\* MultiLanguageBuilder::build when every key parses
BuildValue(multilang) ==
    [t \in {LanguageTag(k) : k \in DOMAIN multilang} |-> multilang[t.tag]]

OptBuildErrs(opt) == IF opt = None THEN {} ELSE BuildErrs(Unwrap(opt))
OptBuildValue(opt) == IF opt = None THEN None ELSE Some(BuildValue(Unwrap(opt)))

RECURSIVE TryFromErrs(_), SeqErrs(_)
\* collect::<Result<_, _>>() over a sequence of children: the first failure
SeqErrs(children) ==
    IF children = <<>> THEN {}
    ELSE IF TryFromErrs(Head(children)) # {} THEN TryFromErrs(Head(children))
    ELSE SeqErrs(Tail(children))

\* faulty variant of TryFromErrs: descriptions are not built
TryFromErrsNoDescriptions(data_schema) ==
    IF OptBuildErrs(data_schema.titles) # {} THEN OptBuildErrs(data_schema.titles)
    ELSE IF SeqErrs(OneOfChildren(data_schema)) # {}
    THEN SeqErrs(OneOfChildren(data_schema))
    ELSE UNION {SeqErrs(order) : order \in SubtypeChildOrders(data_schema.subtype)}

\* the keys try_from may fail with, in the order of its `?`: titles,
\* descriptions, one_of (in order), subtype (array items in order, object
\* properties in map order); empty when try_from returns Ok
TryFromErrs(data_schema) ==
    IF OptBuildErrs(data_schema.titles) # {} THEN OptBuildErrs(data_schema.titles)
    ELSE IF OptBuildErrs(data_schema.descriptions) # {}
    THEN OptBuildErrs(data_schema.descriptions)
    ELSE IF SeqErrs(OneOfChildren(data_schema)) # {}
    THEN SeqErrs(OneOfChildren(data_schema))
    ELSE UNION {SeqErrs(order) : order \in SubtypeChildOrders(data_schema.subtype)}

RECURSIVE TryFromValue(_)
\* TryFrom<UncheckedDataSchemaSubtype>, TryFrom<UncheckedArraySchema> and
\* TryFrom<UncheckedObjectSchema> when no child fails
TryFromSubtype(st) ==
    IF st.type = "Array" THEN
        [st EXCEPT !.items =
            IF st.items = None THEN None
            ELSE IF Unwrap(st.items).tag = "Elem"
            THEN Some(Elem(TryFromValue(Unwrap(st.items).elem)))
            ELSE Some(Vec([i \in 1..Len(Unwrap(st.items).vec) |->
                               TryFromValue(Unwrap(st.items).vec[i])]))]
    ELSE IF st.type = "Object" THEN
        [st EXCEPT !.properties =
            IF st.properties = None THEN None
            ELSE Some([k \in DOMAIN Unwrap(st.properties) |->
                           TryFromValue(Unwrap(st.properties)[k])])]
    ELSE st

\* faulty variant of TryFromValue: a node that is read-only is not write-only
TryFromValueExclusive(data_schema) ==
    [ attype |-> data_schema.attype,
      title |-> data_schema.title,
      titles |-> OptBuildValue(data_schema.titles),
      description |-> data_schema.description,
      descriptions |-> OptBuildValue(data_schema.descriptions),
      constant |-> data_schema.constant,
      default |-> data_schema.default,
      unit |-> data_schema.unit,
      one_of |-> IF data_schema.one_of = None THEN None
                 ELSE Some([i \in 1..Len(Unwrap(data_schema.one_of)) |->
                                TryFromValue(Unwrap(data_schema.one_of)[i])]),
      enumeration |-> data_schema.enumeration,
      read_only |-> data_schema.read_only,
      write_only |-> data_schema.write_only /\ ~data_schema.read_only,
      format |-> data_schema.format,
      subtype |-> IF data_schema.subtype = None THEN None
                  ELSE Some(TryFromSubtype(Unwrap(data_schema.subtype))),
      other |-> data_schema.other ]

\* the DataSchema try_from returns when nothing fails
TryFromValue(data_schema) ==
    [ attype |-> data_schema.attype,
      title |-> data_schema.title,
      titles |-> OptBuildValue(data_schema.titles),
      description |-> data_schema.description,
      descriptions |-> OptBuildValue(data_schema.descriptions),
      constant |-> data_schema.constant,
      default |-> data_schema.default,
      unit |-> data_schema.unit,
      one_of |-> IF data_schema.one_of = None THEN None
                 ELSE Some([i \in 1..Len(Unwrap(data_schema.one_of)) |->
                                TryFromValue(Unwrap(data_schema.one_of)[i])]),
      enumeration |-> data_schema.enumeration,
      read_only |-> data_schema.read_only,
      write_only |-> data_schema.write_only,
      format |-> data_schema.format,
      subtype |-> IF data_schema.subtype = None THEN None
                  ELSE Some(TryFromSubtype(Unwrap(data_schema.subtype))),
      other |-> data_schema.other ]

Ok(value) == [ok |-> TRUE, value |-> value]
Err(kind, key) == [ok |-> FALSE, error |-> kind, key |-> key]

\* faulty variant of TryFromResults: the conversion validates the root subtype first
TryFromResultsValidating(data_schema) ==
    IF data_schema.subtype # None /\ SubtypeVerdict(Unwrap(data_schema.subtype)) # "Ok"
    THEN {Err(SubtypeVerdict(Unwrap(data_schema.subtype)), "")}
    ELSE IF TryFromErrs(data_schema) = {}
    THEN {Ok(TryFromValue(data_schema))}
    ELSE {Err("InvalidLanguageTag", k) : k \in TryFromErrs(data_schema)}

\* the results DataSchema::try_from(data_schema) can return
TryFromResults(data_schema) ==
    IF TryFromErrs(data_schema) = {}
    THEN {Ok(TryFromValue(data_schema))}
    ELSE {Err("InvalidLanguageTag", k) : k \in TryFromErrs(data_schema)}

\* PartialDataSchema has no TryFrom of its own: only the full tree converts
IsUnchecked(node) == "titles" \in DOMAIN node

\* the caller invokes DataSchema::try_from(schema)
TryInto ==
    /\ converted = None
    /\ IsUnchecked(schema)
    /\ \E r \in TryFromResults(schema) : converted' = Some(r)
    /\ UNCHANGED <<schema, calls, checkResult, builder, pending, built>>

----------------------------------------------------------------------------
(* The schema trees validation and conversion are run on *)

WithSubtype(st) == [UncheckedDataSchemaDefault EXCEPT !.subtype = Some(st)]
WithOneOf(members) == [UncheckedDataSchemaDefault EXCEPT !.one_of = Some(members)]

\* bound values: NaN and the finite values 1..MaxVal
F64Bounds == {NaN} \cup {F(v) : v \in 1..MaxVal}
I64Bounds == 1..MaxVal
OptBounds(values) ==
    {None} \cup {Some(Inclusive(v)) : v \in values} \cup {Some(Exclusive(v)) : v \in values}
F64MultipleOf == {None, Some(NaN)} \cup {Some(F(v)) : v \in -1..1}

\* every Number and Integer node over the bound values
NumberNodes ==
    {WithSubtype(NumberSubtype(min, max, m)) :
        min \in OptBounds(F64Bounds), max \in OptBounds(F64Bounds), m \in F64MultipleOf}
IntegerNodes ==
    {WithSubtype(IntegerSubtype(min, max, m)) :
        min \in OptBounds(I64Bounds), max \in OptBounds(I64Bounds), m \in {None, Some(1)}}

\* homogeneous arrays over the item counts, without or with an item
OptCounts == {None} \cup {Some(c) : c \in 1..MaxVal}
VecNode(item, min_items, max_items) ==
    WithSubtype(ArraySubtype(IF item = None THEN None ELSE Some(Elem(Unwrap(item))),
                             min_items, max_items, <<>>))
TupleNode(items) == WithSubtype(ArraySubtype(Some(Vec(items)), None, None, <<>>))
ObjectNode(properties) ==
    WithSubtype(ObjectSubtype(IF DOMAIN properties = {} THEN None ELSE Some(properties),
                              None, <<>>))
ArrayLeaves == {VecNode(None, lo, hi) : lo \in OptCounts, hi \in OptCounts}

\* a valid Number, and one node for each way a node can be wrong
GoodNumber == WithSubtype(NumberSubtype(Some(Inclusive(F(1))), Some(Inclusive(F(2))), Some(F(1))))
BadRangeNumber == WithSubtype(NumberSubtype(Some(Inclusive(F(2))), Some(Inclusive(F(1))), None))
NanNumber == WithSubtype(NumberSubtype(Some(Inclusive(NaN)), None, None))
BadMultipleNumber == WithSubtype(NumberSubtype(None, None, Some(F(0))))
BadRangeInteger == WithSubtype(IntegerSubtype(Some(Inclusive(2)), Some(Exclusive(1)), None))
BadCountArray == VecNode(None, Some(2), Some(1))
OddString == WithSubtype(StringSubtype(Some(2), Some(1), Some("("), None, None))
Titled(key) == [WithSubtype(NullSubtype) EXCEPT !.titles = Some([k \in {key} |-> "t"])]
Described(key) ==
    [WithSubtype(BooleanSubtype) EXCEPT
        !.descriptions = Some([k \in {key, "it"} |-> "d"])]

\* a node with every scalar field set, read_only and write_only both true
Decorated ==
    [WithSubtype(NumberSubtype(None, Some(Inclusive(F(2))), None)) EXCEPT
        !.attype = Some(<<"attype1", "attype2">>),
        !.title = Some("t"),
        !.titles = Some([k \in {"it", "en"} |-> "t"]),
        !.description = Some("d"),
        !.descriptions = Some([k \in {"it", "en"} |-> "d"]),
        !.constant = Some("v"),
        !.default = Some("w"),
        !.unit = Some("u"),
        !.enumeration = Some(<<"w", "v">>),
        !.read_only = TRUE,
        !.write_only = TRUE,
        !.format = Some("f"),
        !.other = <<"ExtA">>]

Leaves ==
    { GoodNumber, BadRangeNumber, NanNumber, BadMultipleNumber, BadRangeInteger,
      BadCountArray, OddString, Titled("en"), Titled("e1n"), Described("x_y"),
      Decorated }

\* what stands beside the nested tree in a tuple, an object or a union
Siblings == {GoodNumber, [BadRangeInteger EXCEPT !.titles = Some([k \in {"1b"} |-> "t"])]}

\* a child alone, or beside a sibling on either side
Rows(t) == {<<t>>} \cup {<<s, t>> : s \in Siblings} \cup {<<t, s>> : s \in Siblings}
PropertyNames == <<"a", "b">>
AsProperties(row) == [k \in {PropertyNames[i] : i \in 1..Len(row)} |->
                         IF k = PropertyNames[1] THEN row[1] ELSE row[2]]

\* the nodes holding t as a homogeneous item, a tuple item, a property or a
\* union member
Parents(t) ==
    {VecNode(Some(t), Some(1), Some(MaxVal))}
    \cup {TupleNode(row) : row \in Rows(t)}
    \cup {ObjectNode(AsProperties(row)) : row \in Rows(t)}
    \cup {WithOneOf(row) : row \in Rows(t)}

RECURSIVE Trees(_)
\* the trees nested at most d deep
Trees(d) ==
    IF d = 0 THEN Leaves
    ELSE Leaves \cup UNION {Parents(t) : t \in Trees(d - 1)}

\* PartialDataSchema with the fields of an unchecked node
AsPartial(node) ==
    [f \in DOMAIN PartialDataSchemaDefault |-> node[f]]

\* every String node over the lengths, without or with a pattern, a content
\* encoding and a media type
StringNodes ==
    {WithSubtype(StringSubtype(lo, hi, p, e, m)) :
        lo \in OptCounts, hi \in OptCounts, p \in {None, Some("(")},
        e \in {None, Some("e")}, m \in {None, Some("m")}}

\* nodes that break a rule themselves and hold items or union members that
\* break another
BadParents ==
    { VecNode(Some(NanNumber), Some(2), Some(1)),
      WithSubtype(ArraySubtype(Some(Vec(<<BadMultipleNumber, NanNumber>>)),
                               Some(2), Some(1), <<>>)),
      [BadRangeInteger EXCEPT !.one_of = Some(<<NanNumber, BadMultipleNumber>>)],
      [BadMultipleNumber EXCEPT !.one_of = Some(<<BadCountArray>>)] }

\* the inputs: nested trees, these nodes at the root, as a union member and
\* as a tuple item, every String node at the root and as an array item, the
\* bare Boolean and Null nodes, every Number / Integer / array-count node at the
\* root and as an array item, inner nodes carrying a bad language tag, and
\* partial roots
Inputs ==
    Trees(MaxDepth)
    \cup NumberNodes \cup IntegerNodes \cup ArrayLeaves
    \cup {VecNode(Some(n), None, None) : n \in NumberNodes \cup IntegerNodes}
    \cup {[t EXCEPT !.descriptions = Some([k \in {"e1n"} |-> "d"])] : t \in Trees(1)}
    \cup {AsPartial(t) : t \in Trees(1)}
    \cup BadParents
    \cup StringNodes \cup {VecNode(Some(n), None, None) : n \in StringNodes}
    \cup {WithSubtype(BooleanSubtype), WithSubtype(NullSubtype)}
    \cup UNION {{WithOneOf(<<GoodNumber, t>>), TupleNode(<<t, GoodNumber>>)} :
                    t \in BadParents}

----------------------------------------------------------------------------
(* Specification of validation and checked conversion over the inputs *)

InitCheck ==
    /\ schema \in Inputs
    /\ calls = <<>>
    /\ checkResult = None
    /\ converted = None
    /\ builder = None
    /\ pending = <<>>
    /\ built = None

NextCheck == CheckCall \/ CheckSubtypeLoop \/ CheckOneOf \/ TryInto

SpecCheck == InitCheck /\ [][NextCheck]_vars

\* check is sequential code: once called, each of its steps is taken
SpecCheckFair == SpecCheck /\ WF_vars(CheckSubtypeLoop) /\ WF_vars(CheckOneOf)

----------------------------------------------------------------------------
(* The builders.  A builder value is one record: the fields of the        *)
(* PartialDataSchemaBuilder (flattened into DataSchemaBuilder, which adds  *)
(* info), the type-state Status, the specialized builder around it (kind,  *)
(* fields) and the ReadOnly / WriteOnly wrappers around that, innermost    *)
(* first.                                                                  *)

Builders == {"DataSchemaBuilder", "PartialDataSchemaBuilder"}

\* HumanReadableInfo::default()
HumanReadableInfoDefault ==
    [ attype |-> None, title |-> None, titles |-> None,
      description |-> None, descriptions |-> None ]

\* DataSchemaBuilder::empty() / PartialDataSchemaBuilder::empty()
DataSchemaBuilderEmpty(base) ==
    [ base |-> base, status |-> "ToExtend",
      constant |-> None, default |-> None, unit |-> None,
      one_of |-> <<>>, enumeration |-> <<>>,
      read_only |-> FALSE, write_only |-> FALSE, format |-> None,
      other |-> <<>>, info |-> HumanReadableInfoDefault,
      kind |-> "Base", fields |-> <<>>, wrap |-> <<>>, setters |-> 0 ]

\* Default for DataSchemaBuilder<.., Extended> / PartialDataSchemaBuilder<.., Extended>
DataSchemaBuilderDefault(base) ==
    [DataSchemaBuilderEmpty(base) EXCEPT !.status = "Extended"]

\* the values the modelled caller passes
ExtPayloads == {"ExtA", "ExtB"}
\* the array-level or object-level payload the closure of tuple_ext, vec_ext
\* or object_ext builds, as b.ext(..).ext_with(..) does
SubtypePayloads == {<<"ExtA", "ExtB">>}
Values == {"v", "w"}
Units == {"u", "u2"}
Formats == {"f", "f2"}
Strings == {"s", "s2"}
F64Inputs == {F(v) : v \in 1..MaxVal}
I64Inputs == 1..MaxVal
U32Inputs == 1..MaxVal

----------------------------------------------------------------------------
(* Conversion of a builder into UncheckedDataSchema / PartialDataSchema *)

\* faulty variant of FromInner: the PartialDataSchema loses the format
FromInnerNoFormat(b, const, members, values, subtype) ==
    IF b.base = "DataSchemaBuilder"
    THEN [ attype |-> b.info.attype, title |-> b.info.title,
           titles |-> b.info.titles, description |-> b.info.description,
           descriptions |-> b.info.descriptions,
           constant |-> const, default |-> b.default, unit |-> b.unit,
           one_of |-> members, enumeration |-> values,
           read_only |-> b.read_only, write_only |-> b.write_only,
           format |-> b.format, subtype |-> subtype, other |-> b.other ]
    ELSE [ constant |-> const, default |-> b.default, unit |-> b.unit,
           one_of |-> members, enumeration |-> values,
           read_only |-> b.read_only, write_only |-> b.write_only,
           format |-> None, subtype |-> subtype, other |-> b.other ]

\* the schema a conversion assembles from the inner builder: the base fields
\* it moves over and the four it decides itself; a PartialDataSchema has no
\* human-readable fields
FromInner(b, const, members, values, subtype) ==
    IF b.base = "DataSchemaBuilder"
    THEN [ attype |-> b.info.attype, title |-> b.info.title,
           titles |-> b.info.titles, description |-> b.info.description,
           descriptions |-> b.info.descriptions,
           constant |-> const, default |-> b.default, unit |-> b.unit,
           one_of |-> members, enumeration |-> values,
           read_only |-> b.read_only, write_only |-> b.write_only,
           format |-> b.format, subtype |-> subtype, other |-> b.other ]
    ELSE [ constant |-> const, default |-> b.default, unit |-> b.unit,
           one_of |-> members, enumeration |-> values,
           read_only |-> b.read_only, write_only |-> b.write_only,
           format |-> b.format, subtype |-> subtype, other |-> b.other ]

\* faulty variant of FromStateless: the type is dropped
FromStatelessUntyped(b) == FromInner(b, b.constant, None, None, None)

\* faulty variant of FromStateless: the constant is dropped as the typed
\* conversions drop it
FromStatelessNoConstant(b) ==
    FromInner(b, None, None, None,
              IF b.fields.ty = None THEN None
              ELSE Some([type |-> Unwrap(b.fields.ty)]))

\* From<StatelessDataSchemaBuilder<T>>: keeps the constant, subtype = ty.map(..)
FromStateless(b) ==
    FromInner(b, b.constant, None, None,
              IF b.fields.ty = None THEN None
              ELSE Some([type |-> Unwrap(b.fields.ty)]))

\* From<TupleDataSchemaBuilder<T>>
FromTuple(b) ==
    FromInner(b, None, None, None,
              Some(ArraySubtype(Some(Vec(b.fields.items)), None, None, b.fields.other)))

\* From<VecDataSchemaBuilder<T>>
FromVec(b) ==
    FromInner(b, None, None, None,
              Some(ArraySubtype(IF b.fields.item = None THEN None
                                ELSE Some(Elem(Unwrap(b.fields.item))),
                                b.fields.min_items, b.fields.max_items,
                                b.fields.other)))

\* faulty variant of FromNumber: a maximum below the minimum is left out
FromNumberOrdered(b) ==
    FromInner(b, None, None, None,
              Some(NumberSubtype(b.fields.minimum,
                                 IF /\ b.fields.minimum # None /\ b.fields.maximum # None
                                    /\ Unwrap(b.fields.maximum).v.v < Unwrap(b.fields.minimum).v.v
                                 THEN None ELSE b.fields.maximum,
                                 b.fields.multiple_of)))

\* From<NumberDataSchemaBuilder<T>>
FromNumber(b) ==
    FromInner(b, None, None, None,
              Some(NumberSubtype(b.fields.minimum, b.fields.maximum,
                                 b.fields.multiple_of)))

\* From<IntegerDataSchemaBuilder<T>>
FromInteger(b) ==
    FromInner(b, None, None, None,
              Some(IntegerSubtype(b.fields.minimum, b.fields.maximum,
                                  b.fields.multiple_of)))

\* faulty variant of CollectProperties: the first pair of a name wins
CollectPropertiesFirst(pairs) ==
    [name \in {pairs[i][1] : i \in 1..Len(pairs)} |->
        pairs[CHOOSE i \in 1..Len(pairs) :
                /\ pairs[i][1] = name
                /\ \A j \in 1..(i - 1) : pairs[j][1] # name][2]]

\* properties.into_iter().collect(): the map of the pairs, the last pair of a
\* name winning
CollectProperties(pairs) ==
    [name \in {pairs[i][1] : i \in 1..Len(pairs)} |->
        pairs[CHOOSE i \in 1..Len(pairs) :
                /\ pairs[i][1] = name
                /\ \A j \in (i + 1)..Len(pairs) : pairs[j][1] # name][2]]

\* faulty variant of FromObject: properties and required are always present
FromObjectPresent(b) ==
    FromInner(b, None, None, None,
              Some(ObjectSubtype(Some(CollectProperties(b.fields.properties)),
                                 Some(b.fields.required), b.fields.other)))

\* From<ObjectDataSchemaBuilder<T>>: empty properties and required become None
FromObject(b) ==
    FromInner(b, None, None, None,
              Some(ObjectSubtype(
                  IF b.fields.properties = <<>> THEN None
                  ELSE Some(CollectProperties(b.fields.properties)),
                  IF b.fields.required = <<>> THEN None ELSE Some(b.fields.required),
                  b.fields.other)))

\* From<StringDataSchemaBuilder<T>>
FromString(b) ==
    FromInner(b, None, None, None,
              Some(StringSubtype(b.fields.min_length, b.fields.max_length,
                                 b.fields.pattern, b.fields.content_encoding,
                                 b.fields.content_media_type)))

\* faulty variant of FromEnum: the conversion leaves a subtype beside the enumeration
FromEnumTyped(b) == FromInner(b, None, None, Some(b.enumeration), Some(NullSubtype))

\* From<EnumDataSchemaBuilder<T>>
FromEnum(b) == FromInner(b, None, None, Some(b.enumeration), None)

\* From<OneOfDataSchemaBuilder<T>>
FromOneOf(b) == FromInner(b, None, Some(b.one_of), None, None)

\* the conversion of the specialized builder inside the wrappers
FromSpecialized(b) ==
    CASE b.kind = "Stateless" -> FromStateless(b)
      [] b.kind = "Tuple" -> FromTuple(b)
      [] b.kind = "Vec" -> FromVec(b)
      [] b.kind = "Number" -> FromNumber(b)
      [] b.kind = "Integer" -> FromInteger(b)
      [] b.kind = "Object" -> FromObject(b)
      [] b.kind = "String" -> FromString(b)
      [] b.kind = "Enum" -> FromEnum(b)
      [] b.kind = "OneOf" -> FromOneOf(b)

\* faulty variant of FromReadOnly: the default value is not carried over
FromReadOnlyNoDefault(data_schema) ==
    [data_schema EXCEPT !.read_only = TRUE, !.default = None]

\* From<ReadOnly<T>>: Self { read_only: true, ..data_schema }
FromReadOnly(data_schema) == [data_schema EXCEPT !.read_only = TRUE]

\* faulty variant of FromWriteOnly: the unit is not carried over
FromWriteOnlyNoUnit(data_schema) ==
    [data_schema EXCEPT !.read_only = FALSE, !.unit = None]

\* From<WriteOnly<T>>: Self { read_only: false, ..data_schema }
FromWriteOnly(data_schema) == [data_schema EXCEPT !.read_only = FALSE]

RECURSIVE FromWrapped(_, _)
\* the conversions of the wrappers around data_schema, innermost first
FromWrapped(data_schema, wrap) ==
    IF wrap = <<>> THEN data_schema
    ELSE FromWrapped(IF Head(wrap) = "ReadOnly" THEN FromReadOnly(data_schema)
                     ELSE FromWriteOnly(data_schema),
                     Tail(wrap))

\* builder.into(): an UncheckedDataSchema from a DataSchemaBuilder, a
\* PartialDataSchema from a PartialDataSchemaBuilder
IntoSchema(b) == FromWrapped(FromSpecialized(b), b.wrap)

\* no conversion exists for a builder that has not been specialized
IsConvertible(b) == b.kind # "Base"

----------------------------------------------------------------------------
(* The operations of the builders *)

\* the builder types ext, ext_with and finish_extend are implemented for
CanExtend(b) == b.status = "ToExtend" /\ b.kind = "Base"

\* faulty variant of IsSpecializable: a builder still open for extension specializes
IsSpecializableAnyStatus(b) == b.kind = "Base" /\ b.wrap = <<>>

\* the builder types SpecializableDataSchema is implemented for
IsSpecializable(b) == b.kind = "Base" /\ b.wrap = <<>> /\ b.status = "Extended"

\* the builder types EnumerableDataSchema is implemented for: the Extended
\* base builders, EnumDataSchemaBuilder over them, and ReadOnly / WriteOnly
\* around an enumerable builder
IsEnumerable(b) == b.status = "Extended" /\ b.kind \in {"Base", "Enum"}

\* the builder types UnionDataSchema is implemented for
IsUnion(b) == b.status = "Extended" /\ b.kind \in {"Base", "OneOf"}

\* faulty variant of IsReadableWriteable: the wrappers can be wrapped again
IsReadableWriteableWrapped(b) ==
    /\ b.kind \in {"Stateless", "Tuple", "Vec", "Number", "Integer", "Object",
                   "String", "Enum"}
    /\ Len(b.wrap) < 2

\* faulty variant of IsReadableWriteable: the Extended base builder and the
\* OneOfDataSchemaBuilder are wrapped too
IsReadableWriteableAnyKind(b) == b.status = "Extended" /\ b.wrap = <<>>

\* the builder types ReadableWriteableDataSchema is implemented for: the
\* specialized builders and EnumDataSchemaBuilder, never a wrapper
IsReadableWriteable(b) ==
    /\ b.kind \in {"Stateless", "Tuple", "Vec", "Number", "Integer", "Object",
                   "String", "Enum"}
    /\ b.wrap = <<>>

\* the caller moves the builder on to b
Becomes(b) ==
    /\ builder' = Some(b)
    /\ UNCHANGED <<schema, calls, checkResult, converted, pending, built>>

\* the caller starts on a new builder b, and drops what the earlier
\* conversions and check returned
Starts(b) ==
    /\ builder = None
    /\ calls = <<>>
    /\ builder' = Some(b)
    /\ converted' = None
    /\ built' = None
    /\ schema' = UncheckedDataSchemaDefault
    /\ checkResult' = None
    /\ UNCHANGED <<calls, pending>>

\* the caller obtains a builder already closed for extension
NewDefault == \E base \in Builders : Starts(DataSchemaBuilderDefault(base))

\* the caller is handed a builder open for extension
NewEmpty == \E base \in Builders : Starts(DataSchemaBuilderEmpty(base))

\* faulty variant of ext: the payload is put before those folded in earlier
ext_front(t) ==
    /\ builder # None
    /\ CanExtend(Unwrap(builder))
    /\ Len(Unwrap(builder).other) < MaxExt
    /\ Unwrap(builder).setters < MaxSetters
    /\ Becomes([Unwrap(builder) EXCEPT !.other = <<t>> \o @, !.one_of = <<>>,
                                       !.setters = @ + 1])

\* ext(t), which is ext_with(|| t): the payload is folded into other and
\* one_of starts again from its default
ext(t) ==
    /\ builder # None
    /\ CanExtend(Unwrap(builder))
    /\ Len(Unwrap(builder).other) < MaxExt
    /\ Unwrap(builder).setters < MaxSetters
    /\ Becomes([Unwrap(builder) EXCEPT !.other = Append(@, t), !.one_of = <<>>,
                                       !.setters = @ + 1])

\* ext_with(f)
ext_with == \E t \in ExtPayloads : ext(t)

\* faulty variant of finish_extend: format is left behind
finish_extend_no_format ==
    /\ builder # None
    /\ CanExtend(Unwrap(builder))
    /\ Becomes([Unwrap(builder) EXCEPT !.status = "Extended", !.format = None])

\* finish_extend
finish_extend ==
    /\ builder # None
    /\ CanExtend(Unwrap(builder))
    /\ Becomes([Unwrap(builder) EXCEPT !.status = "Extended"])

\* faulty variant of SetGeneric: implemented for the Extended Status only
SetGenericExtended(field, value) ==
    /\ builder # None
    /\ Unwrap(builder).status = "Extended"
    /\ Unwrap(builder).setters < MaxSetters
    /\ Becomes([Unwrap(builder) EXCEPT ![field] = Some(value), !.setters = @ + 1])

\* faulty variant of SetGeneric: a field already set keeps its value
SetGenericFirstWins(field, value) ==
    /\ builder # None
    /\ Unwrap(builder).setters < MaxSetters
    /\ Becomes([Unwrap(builder) EXCEPT ![field] = IF @ = None THEN Some(value) ELSE @,
                                       !.setters = @ + 1])

\* a setter of BuildableDataSchema, implemented for the base builders in any
\* Status and delegated to them by every other builder
SetGeneric(field, value) ==
    /\ builder # None
    /\ Unwrap(builder).setters < MaxSetters
    /\ Becomes([Unwrap(builder) EXCEPT ![field] = Some(value), !.setters = @ + 1])

\* BuildableDataSchema::unit
unit == \E value \in Units : SetGeneric("unit", value)

\* BuildableDataSchema::format
format == \E value \in Formats : SetGeneric("format", value)

\* BuildableDataSchema::default_value
default_value == \E value \in Values : SetGeneric("default", value)

\* the builder types BuildableHumanReadableInfo is implemented for: the
\* DataSchemaBuilder in any Status and every builder around one
IsBuildableHumanReadableInfo(b) == b.base = "DataSchemaBuilder"

\* a setter of BuildableHumanReadableInfo, delegated to the info of the
\* DataSchemaBuilder
SetInfo(field, value) ==
    /\ builder # None
    /\ IsBuildableHumanReadableInfo(Unwrap(builder))
    /\ Unwrap(builder).setters < MaxSetters
    /\ Becomes([Unwrap(builder) EXCEPT !.info[field] = Some(value), !.setters = @ + 1])

\* BuildableHumanReadableInfo::title
title == SetInfo("title", "t")

\* BuildableHumanReadableInfo::description
description == SetInfo("description", "d")

\* a SpecializableDataSchema operation: the builder becomes the inner of a
\* specialized builder with default fields
Specialize(kind, fields) ==
    /\ builder # None
    /\ IsSpecializable(Unwrap(builder))
    /\ Becomes([Unwrap(builder) EXCEPT !.kind = kind, !.fields = fields])

\* a SpecializableDataSchema operation that takes a closure building the
\* array-level or object-level payload
SpecializeExt(kind, fields) ==
    /\ builder # None
    /\ IsSpecializable(Unwrap(builder))
    /\ Unwrap(builder).setters < MaxSetters
    /\ Becomes([Unwrap(builder) EXCEPT !.kind = kind, !.fields = fields,
                                       !.setters = @ + 1])

tuple == Specialize("Tuple", [items |-> <<>>, other |-> <<>>])

\* tuple_ext(f): other is what the closure made of AS::empty()
tuple_ext_with(other) == SpecializeExt("Tuple", [items |-> <<>>, other |-> other])

tuple_ext == \E other \in SubtypePayloads : tuple_ext_with(other)

vec ==
    Specialize("Vec", [item |-> None, min_items |-> None, max_items |-> None,
                       other |-> <<>>])

\* vec_ext(f): other is what the closure made of AS::empty()
vec_ext_with(other) ==
    SpecializeExt("Vec", [item |-> None, min_items |-> None, max_items |-> None,
                       other |-> other])

vec_ext == \E other \in SubtypePayloads : vec_ext_with(other)

bool == Specialize("Stateless", [ty |-> Some("Boolean")])

null == Specialize("Stateless", [ty |-> Some("Null")])

number ==
    Specialize("Number", [maximum |-> None, minimum |-> None, multiple_of |-> None])

integer ==
    Specialize("Integer", [maximum |-> None, minimum |-> None, multiple_of |-> None])

object ==
    Specialize("Object", [properties |-> <<>>, required |-> <<>>, other |-> <<>>])

\* object_ext(f): other is what the closure made of OS::empty()
object_ext_with(other) ==
    SpecializeExt("Object", [properties |-> <<>>, required |-> <<>>, other |-> other])

object_ext == \E other \in SubtypePayloads : object_ext_with(other)

string ==
    Specialize("String", [min_length |-> None, max_length |-> None, pattern |-> None,
                          content_encoding |-> None, content_media_type |-> None])

\* constant(value): sets the constant and returns ReadOnly<Stateless { ty: None }>
constant_value(value) ==
    /\ builder # None
    /\ IsSpecializable(Unwrap(builder))
    /\ Becomes([Unwrap(builder) EXCEPT !.constant = Some(value),
                                                  !.kind = "Stateless",
                                                  !.fields = [ty |-> None],
                                                  !.wrap = <<"ReadOnly">>])

\* SpecializableDataSchema::constant
constant == \E value \in Values : constant_value(value)

\* faulty variant of enumeration_value: the value is put before the others
enumeration_value_front(value) ==
    /\ builder # None
    /\ IsEnumerable(Unwrap(builder))
    /\ Len(Unwrap(builder).enumeration) < MaxEnum
    /\ Unwrap(builder).setters < MaxSetters
    /\ Becomes([Unwrap(builder) EXCEPT !.enumeration = <<value>> \o @,
                                        !.kind = "Enum", !.setters = @ + 1])

\* enumeration(value): pushes the value; the base builder becomes the inner of
\* an EnumDataSchemaBuilder, an Enum builder stays one, wrappers stay around it
enumeration_value(value) ==
    /\ builder # None
    /\ IsEnumerable(Unwrap(builder))
    /\ Len(Unwrap(builder).enumeration) < MaxEnum
    /\ Unwrap(builder).setters < MaxSetters
    /\ Becomes([Unwrap(builder) EXCEPT !.enumeration = Append(@, value),
                                        !.kind = "Enum", !.setters = @ + 1])

\* EnumerableDataSchema::enumeration
enumeration == \E value \in Values : enumeration_value(value)

\* faulty variant of CallsClosure: the closure's builder starts with the unit
\* and the flags of the builder the call is made on
CallsClosureInheriting(frame) ==
    /\ builder # None
    /\ Unwrap(builder).setters < MaxSetters
    /\ Len(pending) < MaxBuildDepth
    /\ pending' = Append(pending, frame)
    /\ builder' = Some([DataSchemaBuilderEmpty("DataSchemaBuilder") EXCEPT
                           !.unit = Unwrap(builder).unit,
                           !.read_only = Unwrap(builder).read_only,
                           !.write_only = Unwrap(builder).write_only,
                           !.setters = Unwrap(builder).setters + 1])
    /\ UNCHANGED <<schema, calls, checkResult, converted, built>>

\* f(DataSchemaBuilder::empty()): a call of append, set_item, property or
\* one_of takes the builder it is made on and runs its closure on a new
\* DataSchemaBuilder open for extension
CallsClosure(frame) ==
    /\ builder # None
    /\ Unwrap(builder).setters < MaxSetters
    /\ Len(pending) < MaxBuildDepth
    /\ pending' = Append(pending, frame)
    /\ builder' = Some([DataSchemaBuilderEmpty("DataSchemaBuilder") EXCEPT
                           !.setters = Unwrap(builder).setters + 1])
    /\ UNCHANGED <<schema, calls, checkResult, converted, built>>

\* the frame of a call made on the builder the running code holds
Frame(op, name, required) ==
    [op |-> op, self |-> Unwrap(builder), name |-> name, required |-> required]

\* the call whose closure is running
Caller == pending[Len(pending)]

\* self in the call whose closure is running
Self == [Caller.self EXCEPT !.setters = Unwrap(builder).setters]

\* f(..).into(): the schema of the builder the running closure returns
Returned == IntoSchema(Unwrap(builder))

\* the closure of a call of op returns the builder it holds: the call
\* converts it with into() and returns the builder after
ClosureReturns(op, after) ==
    /\ pending # <<>>
    /\ Caller.op = op
    /\ builder # None
    /\ IsConvertible(Unwrap(builder))
    /\ builder' = Some(after)
    /\ pending' = SubSeq(pending, 1, Len(pending) - 1)
    /\ UNCHANGED <<schema, calls, checkResult, converted, built>>

\* faulty variant of PushOneOf: the schema is put before the members pushed
\* earlier
PushOneOfFront(b, data_schema) ==
    [b EXCEPT !.one_of = <<data_schema>> \o @, !.kind = "OneOf"]

\* self.one_of.push(..); OneOfDataSchemaBuilder { inner: self }: the base
\* builder becomes the inner of a OneOfDataSchemaBuilder, a OneOf builder
\* stays one
PushOneOf(b, data_schema) ==
    [b EXCEPT !.one_of = Append(@, data_schema), !.kind = "OneOf"]

\* UnionDataSchema::one_of
one_of ==
    \/ /\ builder # None
       /\ IsUnion(Unwrap(builder))
       /\ Len(Unwrap(builder).one_of) < MaxItems
       /\ CallsClosure(Frame("one_of", "", FALSE))
    \/ ClosureReturns("one_of", PushOneOf(Self, Returned))

\* read_only(): sets the flag of the inner builder and wraps in ReadOnly
read_only ==
    /\ builder # None
    /\ IsReadableWriteable(Unwrap(builder))
    /\ Becomes([Unwrap(builder) EXCEPT !.read_only = TRUE,
                                       !.wrap = Append(@, "ReadOnly")])

\* write_only(): sets the flag of the inner builder and wraps in WriteOnly
write_only ==
    /\ builder # None
    /\ IsReadableWriteable(Unwrap(builder))
    /\ Becomes([Unwrap(builder) EXCEPT !.write_only = TRUE,
                                       !.wrap = Append(@, "WriteOnly")])

\* the setters of the specialized builders, delegated through ReadOnly and
\* WriteOnly to the builder they wrap

\* faulty variant of PushItem: the schema is put before the items pushed earlier
PushItemFront(b, data_schema) == [b EXCEPT !.fields.items = <<data_schema>> \o @]

\* self.items.push(..)
PushItem(b, data_schema) == [b EXCEPT !.fields.items = Append(@, data_schema)]

\* TupleDataSchemaBuilderLike::append
append ==
    \/ /\ builder # None
       /\ Unwrap(builder).kind = "Tuple"
       /\ Len(Unwrap(builder).fields.items) < MaxItems
       /\ CallsClosure(Frame("append", "", FALSE))
    \/ ClosureReturns("append", PushItem(Self, Returned))

\* faulty variant of SetItem: an item already set is kept
SetItemFirstWins(b, data_schema) ==
    [b EXCEPT !.fields.item = IF @ = None THEN Some(data_schema) ELSE @]

\* self.item = Some(..)
SetItem(b, data_schema) == [b EXCEPT !.fields.item = Some(data_schema)]

\* VecDataSchemaBuilderLike::set_item
set_item ==
    \/ /\ builder # None
       /\ Unwrap(builder).kind = "Vec"
       /\ CallsClosure(Frame("set_item", "", FALSE))
    \/ ClosureReturns("set_item", SetItem(Self, Returned))

\* faulty variant of SetFieldTo: a field already set keeps its value
SetFieldToFirstWins(kind, field, value) ==
    /\ builder # None
    /\ Unwrap(builder).kind = kind
    /\ Unwrap(builder).setters < MaxSetters
    /\ Becomes([Unwrap(builder) EXCEPT
                  !.fields[field] = IF @ = None THEN Some(value) ELSE @,
                  !.setters = @ + 1])

\* a plain field setter of a specialized builder, called with one value
SetFieldTo(kind, field, value) ==
    /\ builder # None
    /\ Unwrap(builder).kind = kind
    /\ Unwrap(builder).setters < MaxSetters
    /\ Becomes([Unwrap(builder) EXCEPT !.fields[field] = Some(value),
                                       !.setters = @ + 1])

\* a plain field setter of a specialized builder
SetField(kind, field, values) == \E value \in values : SetFieldTo(kind, field, value)

\* VecDataSchemaBuilderLike::min_items / max_items
min_max_items ==
    \E field \in {"min_items", "max_items"} : SetField("Vec", field, U32Inputs)

\* NumberDataSchemaBuilderLike::minimum / exclusive_minimum
number_minimum ==
    SetField("Number", "minimum",
             {Inclusive(v) : v \in F64Inputs} \cup {Exclusive(v) : v \in F64Inputs})

\* NumberDataSchemaBuilderLike::maximum / exclusive_maximum
number_maximum ==
    SetField("Number", "maximum",
             {Inclusive(v) : v \in F64Inputs} \cup {Exclusive(v) : v \in F64Inputs})

\* NumberDataSchemaBuilderLike::multiple_of
number_multiple_of == SetField("Number", "multiple_of", F64Inputs \cup {F(0)})

\* IntegerDataSchemaBuilderLike::minimum / exclusive_minimum
integer_minimum ==
    SetField("Integer", "minimum",
             {Inclusive(v) : v \in I64Inputs} \cup {Exclusive(v) : v \in I64Inputs})

\* IntegerDataSchemaBuilderLike::maximum / exclusive_maximum
integer_maximum ==
    SetField("Integer", "maximum",
             {Inclusive(v) : v \in I64Inputs} \cup {Exclusive(v) : v \in I64Inputs})

\* IntegerDataSchemaBuilderLike::multiple_of, a NonZeroU64
integer_multiple_of == SetField("Integer", "multiple_of", U32Inputs)

\* faulty variant of PushProperty: a name already required is not pushed again
PushPropertyOnce(b, name, required, data_schema) ==
    [b EXCEPT !.fields.required =
                 IF required /\ \A i \in 1..Len(@) : @[i] # name THEN Append(@, name) ELSE @,
              !.fields.properties = Append(@, <<name, data_schema>>)]

\* if required { self.required.push(name.clone()) };
\* self.properties.push((name, data_schema))
PushProperty(b, name, required, data_schema) ==
    [b EXCEPT !.fields.required = IF required THEN Append(@, name) ELSE @,
              !.fields.properties = Append(@, <<name, data_schema>>)]

\* ObjectDataSchemaBuilderLike::property
property ==
    \/ /\ builder # None
       /\ Unwrap(builder).kind = "Object"
       /\ Len(Unwrap(builder).fields.properties) < MaxItems
       /\ \E name \in Range(PropertyNames), required \in BOOLEAN :
             CallsClosure(Frame("property", name, required))
    \/ ClosureReturns("property",
                       PushProperty(Self, Caller.name, Caller.required, Returned))

\* faulty variant of IsStringLike: the wrappers delegate the String setters too
IsStringLikeDelegated(b) == b.kind = "String"

\* the builder types StringDataSchemaBuilderLike is implemented for: the
\* StringDataSchemaBuilder alone, no wrapper delegates it
IsStringLike(b) == b.kind = "String" /\ b.wrap = <<>>

\* StringDataSchemaBuilderLike::min_length / max_length
min_max_length ==
    /\ builder # None
    /\ IsStringLike(Unwrap(builder))
    /\ \E field \in {"min_length", "max_length"} : SetField("String", field, U32Inputs)

\* StringDataSchemaBuilderLike::pattern / content_encoding / content_media_type
pattern_content ==
    /\ builder # None
    /\ IsStringLike(Unwrap(builder))
    /\ \E field \in {"pattern", "content_encoding", "content_media_type"} :
          SetField("String", field, Strings)

----------------------------------------------------------------------------
(* The conversions the caller makes *)

\* the caller converts the builder with into()
Into ==
    /\ builder # None
    /\ pending = <<>>
    /\ IsConvertible(Unwrap(builder))
    /\ built' = Some(IntoSchema(Unwrap(builder)))
    /\ builder' = None
    /\ UNCHANGED <<schema, calls, checkResult, converted, pending>>

\* TryFrom<builder> for DataSchema: value.into() to an UncheckedDataSchema,
\* then try_into()
TryIntoDataSchema ==
    /\ builder # None
    /\ pending = <<>>
    /\ IsConvertible(Unwrap(builder))
    /\ Unwrap(builder).base = "DataSchemaBuilder"
    /\ LET data_schema == IntoSchema(Unwrap(builder))
       IN  /\ built' = Some(data_schema)
           /\ \E r \in TryFromResults(data_schema) : converted' = Some(r)
    /\ builder' = None
    /\ UNCHANGED <<schema, calls, checkResult, pending>>

\* the caller validates the schema the last conversion returned: check() on it
CheckBuilt ==
    /\ builder = None
    /\ built # None
    /\ calls = <<>>
    /\ checkResult = None
    /\ schema' = Unwrap(built)
    /\ calls' = <<CheckFrame(Unwrap(built))>>
    /\ UNCHANGED <<checkResult, converted, builder, pending, built>>

----------------------------------------------------------------------------
(* The builder specification *)

Init ==
    /\ schema = UncheckedDataSchemaDefault
    /\ calls = <<>>
    /\ checkResult = None
    /\ converted = None
    /\ builder = None
    /\ pending = <<>>
    /\ built = None

Next ==
    \/ NewDefault \/ NewEmpty \/ ext_with \/ finish_extend
    \/ unit \/ format \/ default_value \/ title \/ description
    \/ tuple \/ tuple_ext \/ vec \/ vec_ext \/ object_ext \/ bool \/ null \/ number \/ integer \/ object \/ string
    \/ constant \/ enumeration \/ one_of \/ read_only \/ write_only
    \/ append \/ set_item \/ min_max_items
    \/ number_minimum \/ number_maximum \/ number_multiple_of
    \/ integer_minimum \/ integer_maximum \/ integer_multiple_of
    \/ property \/ min_max_length \/ pattern_content
    \/ Into \/ TryIntoDataSchema
    \/ CheckBuilt \/ CheckSubtypeLoop \/ CheckOneOf

Spec == Init /\ [][Next]_vars

----------------------------------------------------------------------------
(* The conversions of a ReadOnly / WriteOnly wrapper back into a base     *)
(* builder.  The wrappers of a base builder are the struct literals       *)
(* ReadOnly { inner } and WriteOnly { inner } written inside the crate,   *)
(* which set no flag.                                                      *)

\* wrappers written around one base builder
MaxWrap == 2

\* the Extended base builders the literals are written around
BaseBuilders ==
    {b \in {[DataSchemaBuilderDefault(base) EXCEPT
                !.unit = unit_, !.format = format_, !.default = default_,
                !.other = other, !.info.title = title_] :
              base \in Builders,
              unit_ \in {None} \cup {Some(u) : u \in Units},
              format_ \in {None, Some("f")},
              default_ \in {None, Some("v")},
              other \in {<<>>, <<"ExtA">>},
              title_ \in {None, Some("t")}} :
        b.base = "PartialDataSchemaBuilder" => b.info = HumanReadableInfoDefault}

\* ReadOnly { inner: builder } / WriteOnly { inner: builder }
WrapLiteral(wrapper) ==
    /\ builder # None
    /\ Unwrap(builder).kind = "Base"
    /\ Unwrap(builder).status = "Extended"
    /\ Len(Unwrap(builder).wrap) < MaxWrap
    /\ Becomes([Unwrap(builder) EXCEPT !.wrap = Append(@, wrapper)])

ReadOnlyLiteral == WrapLiteral("ReadOnly")

WriteOnlyLiteral == WrapLiteral("WriteOnly")

\* From<ReadOnly<T>> for DataSchemaBuilder / PartialDataSchemaBuilder, on
\* the builder data_schema.inner.into() gave
BuilderFromReadOnly(b) == [b EXCEPT !.read_only = TRUE]

\* faulty variant of BuilderFromWriteOnly: read_only is cleared, as in the
\* conversion of the wrapper into a schema
BuilderFromWriteOnlyExclusive(b) == [b EXCEPT !.write_only = TRUE, !.read_only = FALSE]

\* From<WriteOnly<T>> for DataSchemaBuilder / PartialDataSchemaBuilder
BuilderFromWriteOnly(b) == [b EXCEPT !.write_only = TRUE]

RECURSIVE BuilderFromWrapped(_, _)
\* the conversions of the wrappers around the base builder b, innermost first
BuilderFromWrapped(b, wrap) ==
    IF wrap = <<>> THEN b
    ELSE BuilderFromWrapped(IF Head(wrap) = "ReadOnly" THEN BuilderFromReadOnly(b)
                            ELSE BuilderFromWriteOnly(b),
                            Tail(wrap))

\* wrapper.into(): the base builder of a wrapper around a base builder
into_builder ==
    /\ builder # None
    /\ Unwrap(builder).kind = "Base"
    /\ Unwrap(builder).status = "Extended"
    /\ Unwrap(builder).wrap # <<>>
    /\ Becomes(BuilderFromWrapped([Unwrap(builder) EXCEPT !.wrap = <<>>],
                                  Unwrap(builder).wrap))

InitInto ==
    /\ schema = UncheckedDataSchemaDefault
    /\ calls = <<>>
    /\ checkResult = None
    /\ converted = None
    /\ builder \in {Some(b) : b \in BaseBuilders}
    /\ pending = <<>>
    /\ built = None

NextInto ==
    \/ ReadOnlyLiteral
    \/ WriteOnlyLiteral
    \/ into_builder

SpecInto == InitInto /\ [][NextInto]_vars

----------------------------------------------------------------------------
(* The rules of the data model, stated on the tree itself *)

IsKind(node, types) == node.subtype # <<>> /\ node.subtype[1].type \in types

\* a bound is NaN
NanBound(opt) == opt # <<>> /\ opt[1].v.nan

\* some Number bound of the node is NaN
HasNanBound(node) ==
    IsKind(node, {"Number"})
    /\ (NanBound(node.subtype[1].minimum) \/ NanBound(node.subtype[1].maximum))

\* the number a bound holds (of a finite f64, or an i64)
BoundValue(node, bound) ==
    IF node.subtype[1].type = "Number" THEN bound.v.v ELSE bound.v

\* minimum and maximum are both present and leave no value between them:
\* minimum above maximum, or equal to it with an exclusive end
EmptyRange(node) ==
    /\ IsKind(node, {"Number", "Integer"})
    /\ ~HasNanBound(node)
    /\ node.subtype[1].minimum # <<>>
    /\ node.subtype[1].maximum # <<>>
    /\ LET lo == node.subtype[1].minimum[1]
           hi == node.subtype[1].maximum[1]
       IN  \/ BoundValue(node, lo) > BoundValue(node, hi)
           \/ /\ BoundValue(node, lo) = BoundValue(node, hi)
              /\ "Exclusive" \in {lo.tag, hi.tag}

\* multiple_of of a Number is present and zero or negative
BadMultipleOf(node) ==
    /\ IsKind(node, {"Number"})
    /\ node.subtype[1].multiple_of # <<>>
    /\ ~node.subtype[1].multiple_of[1].nan
    /\ node.subtype[1].multiple_of[1].v <= 0

\* min_items is above max_items
BadItemCounts(node) ==
    /\ IsKind(node, {"Array"})
    /\ node.subtype[1].min_items # <<>>
    /\ node.subtype[1].max_items # <<>>
    /\ node.subtype[1].min_items[1] > node.subtype[1].max_items[1]

\* the node breaks a min/max, NaN or multiple_of rule
Violates(node) ==
    EmptyRange(node) \/ HasNanBound(node) \/ BadMultipleOf(node) \/ BadItemCounts(node)

\* the malformed language tags among the keys of a node's titles and descriptions
MalformedKeys(node) ==
    IF "titles" \notin DOMAIN node THEN {}
    ELSE {k \in (IF node.titles = <<>> THEN {} ELSE DOMAIN node.titles[1])
                \cup (IF node.descriptions = <<>> THEN {} ELSE DOMAIN node.descriptions[1]) :
            k \notin WellFormedTags}

TreeMalformedKeys(root) == UNION {MalformedKeys(n) : n \in Nodes(root)}

\* the node validated on its own: the root, or the only item of a root
\* homogeneous array that has no item counts
Subjects ==
    {schema} \cup
    (IF /\ IsKind(schema, {"Array"})
        /\ schema.subtype[1].items # <<>>
        /\ schema.subtype[1].items[1].tag = "Elem"
        /\ schema.subtype[1].min_items = <<>>
        /\ schema.subtype[1].max_items = <<>>
     THEN {schema.subtype[1].items[1].elem}
     ELSE {})

CheckDone == checkResult # <<>>
CheckError == IF checkResult = <<>> THEN "Running" ELSE checkResult[1]

\* the Number and Integer subtypes of a tree
NumericSubtypes(root) ==
    {n.subtype[1] : n \in {m \in Nodes(root) : IsKind(m, {"Number", "Integer"})}}

----------------------------------------------------------------------------
(* Claims on the builders, under Spec *)

\* read_only and write_only are both set on the node
BothFlags(node) == node.read_only /\ node.write_only

\* C1: no node, root or nested, of a schema that a sequence of builder
\* operations produced and a conversion returned, in the unchecked or in the
\* checked form, has read_only and write_only both true
C1_NeverReadOnlyAndWriteOnly ==
    /\ built # <<>> => \A n \in Nodes(built[1]) : ~BothFlags(n)
    /\ (converted # <<>> /\ converted[1].ok) =>
          \A n \in Nodes(converted[1].value) : ~BothFlags(n)

\* C1 witness: a checked schema whose root went through read_only() and
\* whose child went through write_only()
C1_Witness ==
    /\ converted # <<>> /\ converted[1].ok
    /\ converted[1].value.read_only /\ ~converted[1].value.write_only
    /\ \E c \in Kids(converted[1].value) : c.write_only /\ ~c.read_only
    /\ built # <<>> /\ built[1].read_only

\* how many of subtype, one_of and enumeration the node has
Alternatives(node) ==
    Cardinality({f \in {"subtype", "one_of", "enumeration"} : node[f] # <<>>})

\* the step converts the builder into a schema
Converts == builder # <<>> /\ builder' = <<>> /\ built' # <<>>

\* C2: every node of a schema a conversion returns has at most one of
\* subtype, one_of and enumeration; the node of an Enum builder has the
\* enumeration alone, that of a OneOf builder the one_of alone, and that of a
\* typed specialization the subtype alone
C2_OneAlternative ==
    [][Converts =>
         /\ \A n \in Nodes(built'[1]) : Alternatives(n) <= 1
         /\ builder[1].kind = "Enum" =>
               /\ built'[1].enumeration # <<>>
               /\ built'[1].subtype = <<>> /\ built'[1].one_of = <<>>
         /\ builder[1].kind = "OneOf" =>
               /\ built'[1].one_of # <<>>
               /\ built'[1].subtype = <<>> /\ built'[1].enumeration = <<>>
         /\ ( \/ builder[1].kind \in {"Tuple", "Vec", "Number", "Integer", "Object", "String"}
              \/ builder[1].kind = "Stateless" /\ builder[1].fields.ty # <<>> ) =>
               /\ built'[1].subtype # <<>>
               /\ built'[1].one_of = <<>> /\ built'[1].enumeration = <<>>
    ]_vars

\* C2 witness: the schema of a OneOf builder whose member came from an Enum
\* builder
C2_Witness ==
    /\ built # <<>>
    /\ built[1].one_of # <<>> /\ built[1].subtype = <<>>
    /\ \E i \in 1..Len(built[1].one_of[1]) :
          /\ built[1].one_of[1][i].enumeration # <<>>
          /\ built[1].one_of[1][i].one_of = <<>>

\* the step applies an operation to the builder the caller holds
Operates == builder # <<>> /\ builder' # <<>> /\ pending' = pending

\* the step is an ext or ext_with
Extends == Operates /\ builder'[1].other # builder[1].other

\* the step is a specialization: number, integer, string, bool, null, object,
\* tuple, vec, constant, enumeration or one_of
Specializes ==
    /\ Operates
    /\ \/ builder'[1].kind # builder[1].kind
       \/ builder'[1].enumeration # builder[1].enumeration
       \/ Len(builder'[1].one_of) > Len(builder[1].one_of)

----------------------------------------------------------------------------
(* Claims on validation and checked conversion, under SpecCheck *)

\* C4: once check has returned, it has returned an error whenever some node
\* of the tree, at any depth below array items, tuple items, object
\* properties or union members, breaks a min/max, NaN or multiple_of rule
C4_NestedViolationFails ==
    (CheckDone /\ \E n \in Nodes(schema) : Violates(n)) => CheckError # "Ok"

\* C4 witness: check failed on a tree whose root and children are all valid
\* and that holds a violating node two levels down
C4_Witness ==
    /\ CheckDone /\ CheckError # "Ok"
    /\ ~Violates(schema)
    /\ \A c \in Kids(schema) : ~Violates(c)
    /\ \E c \in Kids(schema) : \E g \in Kids(c) : Violates(g)
    /\ schema.one_of = <<>>

\* C5: once check has returned on a tree in which no node breaks a rule, it
\* has returned Ok, for an unchecked root and for a partial root
C5_ValidTreePasses ==
    (CheckDone /\ \A n \in Nodes(schema) : ~Violates(n)) => CheckError = "Ok"

\* C5 witness: check returned Ok on a partial root that holds children
C5_Witness ==
    /\ CheckError = "Ok"
    /\ "titles" \notin DOMAIN schema
    /\ \E c \in Kids(schema) : IsKind(c, {"Number"})

\* C8: a Number or Integer node whose minimum is above its maximum, or equal
\* to it with an exclusive end, makes check return InvalidMinMax
C8_EmptyRangeIsInvalidMinMax ==
    (CheckDone /\ \E n \in Subjects : EmptyRange(n)) => CheckError = "InvalidMinMax"

\* C8 witness: InvalidMinMax for an Integer whose bounds are equal, the
\* minimum exclusive
C8_Witness ==
    /\ CheckError = "InvalidMinMax"
    /\ IsKind(schema, {"Integer"})
    /\ schema.subtype[1].minimum = <<[tag |-> "Exclusive", v |-> 2]>>
    /\ schema.subtype[1].maximum = <<[tag |-> "Inclusive", v |-> 2]>>

\* C9: a Number node with a NaN minimum or maximum makes check return
\* NanMinMax, never InvalidMinMax, whatever the other bound is
C9_NanBoundIsNanMinMax ==
    (CheckDone /\ \E n \in Subjects : HasNanBound(n)) => CheckError = "NanMinMax"

\* C9 witness: NanMinMax for a Number whose maximum is NaN beside a finite minimum
C9_Witness ==
    /\ CheckError = "NanMinMax"
    /\ IsKind(schema, {"Number"})
    /\ schema.subtype[1].minimum # <<>>
    /\ ~schema.subtype[1].minimum[1].v.nan
    /\ NanBound(schema.subtype[1].maximum)

\* C10 as stated: a Number whose multiple_of is zero or negative makes check
\* return InvalidMultipleOf, also as an array item, and a positive
\* multiple_of never gives InvalidMultipleOf
C10_AsStated ==
    CheckDone =>
        /\ (\E n \in Subjects : BadMultipleOf(n)) => CheckError = "InvalidMultipleOf"
        /\ (\A n \in Nodes(schema) : ~BadMultipleOf(n)) => CheckError # "InvalidMultipleOf"

\* C10 amended: a Number whose multiple_of is zero or negative makes check
\* fail, with InvalidMultipleOf when its bounds pass the NaN and range tests
\* made before it and with the error of those tests otherwise, also as an
\* array item; a positive multiple_of never gives InvalidMultipleOf
C10_BadMultipleOfFails ==
    CheckDone =>
        /\ \A n \in Subjects : BadMultipleOf(n) =>
              CheckError = IF HasNanBound(n) THEN "NanMinMax"
                           ELSE IF EmptyRange(n) THEN "InvalidMinMax"
                           ELSE "InvalidMultipleOf"
        /\ (\A n \in Nodes(schema) : ~BadMultipleOf(n)) => CheckError # "InvalidMultipleOf"

\* C10 witness: InvalidMultipleOf for a negative multiple_of on the item of
\* an array
C10_Witness ==
    /\ CheckError = "InvalidMultipleOf"
    /\ IsKind(schema, {"Array"})
    /\ \E n \in Subjects \ {schema} :
          BadMultipleOf(n) /\ n.subtype[1].multiple_of[1].v < 0

\* C6: the checked conversion of a tree whose language tags are all well
\* formed returns Ok, whatever validation says of the tree, and its Number
\* and Integer subtypes are those of the unchecked tree
C6_ConversionSkipsValidation ==
    (converted # <<>> /\ TreeMalformedKeys(schema) = {}) =>
        /\ converted[1].ok
        /\ NumericSubtypes(converted[1].value) = NumericSubtypes(schema)

\* C6 witness: the conversion returned Ok for a Number whose minimum is above
\* its maximum, which check rejected
C6_Witness ==
    /\ converted # <<>> /\ converted[1].ok
    /\ CheckError = "InvalidMinMax"
    /\ IsKind(schema, {"Number"}) /\ EmptyRange(schema)
    /\ converted[1].value.subtype = schema.subtype

\* C7 as stated: whenever a node has a malformed key the conversion fails
\* with InvalidLanguageTag carrying that key
C7_AsStated ==
    converted # <<>> =>
        \A k \in TreeMalformedKeys(schema) :
            converted[1] = [ok |-> FALSE, error |-> "InvalidLanguageTag", key |-> k]

\* C7 amended: when some node of the tree has a malformed key the conversion
\* fails with InvalidLanguageTag carrying a malformed key of the tree (that
\* key when it is the only one) and returns no schema
C7_MalformedTagFails ==
    (converted # <<>> /\ TreeMalformedKeys(schema) # {}) =>
        /\ ~converted[1].ok
        /\ converted[1].error = "InvalidLanguageTag"
        /\ converted[1].key \in TreeMalformedKeys(schema)
        /\ "value" \notin DOMAIN converted[1]

\* C7 witness: the conversion failed on the key of a node two levels below a
\* root that has no malformed key itself
C7_Witness ==
    /\ converted # <<>> /\ ~converted[1].ok
    /\ MalformedKeys(schema) = {}
    /\ \A c \in Kids(schema) : MalformedKeys(c) = {}
    /\ \E c \in Kids(schema) : \E g \in Kids(c) : converted[1].key \in MalformedKeys(g)

\* C11: an Array root whose min_items is above its max_items makes check
\* return InvalidMinMax; an Array root with one count alone, or with
\* min_items at or below max_items, is not rejected for its counts: check
\* returns Ok when nothing below the root breaks a rule
C11_ArrayCountsExactly ==
    (CheckDone /\ IsKind(schema, {"Array"})) =>
        /\ BadItemCounts(schema) => CheckError = "InvalidMinMax"
        /\ (~BadItemCounts(schema) /\ \A n \in Nodes(schema) \ {schema} : ~Violates(n))
              => CheckError = "Ok"

\* C11 witness: check returned Ok on an Array that has max_items alone
C11_Witness ==
    /\ CheckError = "Ok"
    /\ IsKind(schema, {"Array"})
    /\ schema.subtype[1].min_items = <<>>
    /\ schema.subtype[1].max_items # <<>>

\* C12 as stated: no call of check is ever made while another call of check
\* is running, whatever the nesting of the tree
C12_NoNestedCheck == Len(calls) <= 1

\* the fields of a node that the checked conversion moves over as they are
ScalarFields ==
    {"attype", "title", "description", "constant", "default", "unit",
     "enumeration", "read_only", "write_only", "format", "other"}

RECURSIVE Mirrors(_, _)
\* the checked node value has the scalar fields of the unchecked node and,
\* in the same positions, children that mirror its children
Mirrors(node, value) ==
    /\ \A f \in ScalarFields : value[f] = node[f]
    /\ (node.one_of = <<>>) = (value.one_of = <<>>)
    /\ node.one_of # <<>> =>
          /\ Len(value.one_of[1]) = Len(node.one_of[1])
          /\ \A i \in 1..Len(node.one_of[1]) :
                Mirrors(node.one_of[1][i], value.one_of[1][i])
    /\ (node.subtype = <<>>) = (value.subtype = <<>>)
    /\ node.subtype # <<>> =>
          LET st == node.subtype[1]
              vt == value.subtype[1]
          IN  /\ vt.type = st.type
              /\ st.type \notin {"Array", "Object"} => vt = st
              /\ st.type = "Array" =>
                    /\ vt.min_items = st.min_items /\ vt.max_items = st.max_items
                    /\ vt.other = st.other
                    /\ (st.items = <<>>) = (vt.items = <<>>)
                    /\ st.items # <<>> =>
                          /\ vt.items[1].tag = st.items[1].tag
                          /\ st.items[1].tag = "Elem" =>
                                Mirrors(st.items[1].elem, vt.items[1].elem)
                          /\ st.items[1].tag = "Vec" =>
                                /\ Len(vt.items[1].vec) = Len(st.items[1].vec)
                                /\ \A i \in 1..Len(st.items[1].vec) :
                                      Mirrors(st.items[1].vec[i], vt.items[1].vec[i])
              /\ st.type = "Object" =>
                    /\ vt.required = st.required /\ vt.other = st.other
                    /\ (st.properties = <<>>) = (vt.properties = <<>>)
                    /\ st.properties # <<>> =>
                          /\ DOMAIN vt.properties[1] = DOMAIN st.properties[1]
                          /\ \A k \in DOMAIN st.properties[1] :
                                Mirrors(st.properties[1][k], vt.properties[1][k])

\* C28: the checked conversion of a tree whose language tags are all well
\* formed returns Ok with a tree that mirrors the unchecked one: every node
\* has the attype, title, description, constant, default, unit, enumeration,
\* read_only, write_only, format and extension payload of the node it came
\* from, read_only and write_only both true included, and the members of
\* one_of, the items and the properties are converted where they stand
C28_ConversionMirrors ==
    (converted # <<>> /\ TreeMalformedKeys(schema) = {}) =>
        /\ converted[1].ok
        /\ Mirrors(schema, converted[1].value)

\* C28 witness: the conversion returned Ok for a tuple whose second item has
\* every scalar field set and is both read-only and write-only
C28_Witness ==
    /\ converted # <<>> /\ converted[1].ok
    /\ IsKind(schema, {"Array"})
    /\ schema.subtype[1].items # <<>>
    /\ schema.subtype[1].items[1].tag = "Vec"
    /\ Len(schema.subtype[1].items[1].vec) = 2
    /\ schema.subtype[1].items[1].vec[2] = Decorated
    /\ BothFlags(converted[1].value.subtype[1].items[1].vec[2])

----------------------------------------------------------------------------
(* Claims on the setters and the wrappers, under Spec *)

\* the values a bound setter of a Number or Integer builder is called with
BoundInputs(kind) == IF kind = "Number" THEN F64Inputs ELSE I64Inputs

\* the subtype of the node the builder converts into
SubtypeOf(b) == IntoSchema(b).subtype[1]

\* the builder is a Number or Integer builder that minimum(a) was called on
\* and that can take one more setter call
AfterMinimum(kind, a) ==
    /\ builder # <<>>
    /\ builder[1].kind = kind
    /\ builder[1].fields.minimum = <<[tag |-> "Inclusive", v |-> a]>>
    /\ builder[1].setters < MaxSetters

\* C13: on a Number or Integer builder that minimum(a) was called on,
\* exclusive_maximum(b) is accepted whatever b is and gives a node with
\* minimum Inclusive(a) and maximum Exclusive(b); the conversions of a node
\* with an empty range succeed, and check alone returns InvalidMinMax for it
C13_EmptyRangeOnlyAtValidation ==
    /\ [][\A kind \in {"Number", "Integer"} :
           \A a \in BoundInputs(kind), b \in BoundInputs(kind) :
              (AfterMinimum(kind, a)
               /\ SetFieldTo(kind, "maximum", [tag |-> "Exclusive", v |-> b])) =>
                  /\ SubtypeOf(builder'[1]).minimum = <<[tag |-> "Inclusive", v |-> a]>>
                  /\ SubtypeOf(builder'[1]).maximum = <<[tag |-> "Exclusive", v |-> b]>>
        ]_vars
    /\ [](\A kind \in {"Number", "Integer"} :
           \A a \in BoundInputs(kind), b \in BoundInputs(kind) :
              AfterMinimum(kind, a) =>
                 ENABLED SetFieldTo(kind, "maximum", [tag |-> "Exclusive", v |-> b]))
    /\ []((built # <<>> /\ EmptyRange(built[1])) =>
             /\ converted # <<>> => converted[1].ok
             /\ (CheckDone /\ schema = built[1]) => CheckError = "InvalidMinMax")

\* C13 witness: an Integer builder went through minimum(2) and
\* exclusive_maximum(1); its checked conversion succeeded and check returned
\* InvalidMinMax
C13_Witness ==
    /\ built # <<>> /\ schema = built[1]
    /\ IsKind(schema, {"Integer"})
    /\ schema.subtype[1].minimum = <<[tag |-> "Inclusive", v |-> 2]>>
    /\ schema.subtype[1].maximum = <<[tag |-> "Exclusive", v |-> 1]>>
    /\ converted # <<>> /\ converted[1].ok
    /\ CheckError = "InvalidMinMax"

\* the bounds a minimum / exclusive_minimum (maximum / exclusive_maximum)
\* call can write
TaggedInputs(kind) ==
    {[tag |-> t, v |-> v] : t \in {"Inclusive", "Exclusive"}, v \in BoundInputs(kind)}

\* C14: whatever the slot held, a minimum or exclusive_minimum call on a
\* Number or Integer builder leaves in the minimum of the node the value of
\* that call with the tag of that call, and leaves the maximum and multiple_of
\* alone; the same for maximum and exclusive_maximum; the call is always
\* accepted
C14_LastBoundCallWins ==
    /\ [][\A kind \in {"Number", "Integer"}, slot \in {"minimum", "maximum"} :
           \A bound \in TaggedInputs(kind) :
              SetFieldTo(kind, slot, bound) =>
                 /\ SubtypeOf(builder'[1])[slot] = <<bound>>
                 /\ \A f \in {"minimum", "maximum", "multiple_of"} \ {slot} :
                       SubtypeOf(builder'[1])[f] = SubtypeOf(builder[1])[f]
        ]_vars
    /\ [](\A kind \in {"Number", "Integer"}, slot \in {"minimum", "maximum"} :
           \A bound \in TaggedInputs(kind) :
              (builder # <<>> /\ builder[1].kind = kind /\ builder[1].setters < MaxSetters)
                 => ENABLED SetFieldTo(kind, slot, bound))

\* C14 witness: a Number builder whose two setter calls both wrote the
\* minimum slot
C14_Witness ==
    /\ builder # <<>>
    /\ builder[1].kind = "Number"
    /\ builder[1].setters = 2
    /\ builder[1].fields.minimum # <<>>
    /\ builder[1].fields.maximum = <<>> /\ builder[1].fields.multiple_of = <<>>
    /\ builder[1].unit = <<>> /\ builder[1].format = <<>> /\ builder[1].default = <<>>
    /\ builder[1].info.title = <<>> /\ builder[1].info.description = <<>>

\* C15: a read_only() call gives a builder whose node is the node of the
\* builder it was called on with read_only set to true: every other field
\* (title, description, default, unit, format, enumeration, subtype with its
\* bounds, items and properties, extension payload) is the same, and
\* write_only is false
C15_ReadOnlyKeepsFields ==
    [][read_only =>
         /\ IntoSchema(builder'[1]) = [IntoSchema(builder[1]) EXCEPT !.read_only = TRUE]
         /\ IntoSchema(builder'[1]).read_only
         /\ ~IntoSchema(builder'[1]).write_only
    ]_vars

\* C15 witness: a read-only list builder with a minimum item count and an
\* item
C15_Witness ==
    /\ builder # <<>>
    /\ builder[1].wrap = <<"ReadOnly">>
    /\ builder[1].kind = "Vec"
    /\ builder[1].fields.min_items # <<>>
    /\ builder[1].fields.item # <<>>
    /\ IntoSchema(builder[1]).read_only

\* the builder is wrapped in ReadOnly or WriteOnly and can take one more
\* setter call
WrappedWithBudget ==
    /\ builder # <<>>
    /\ builder[1].wrap # <<>>
    /\ builder[1].setters < MaxSetters

\* C16 as stated: on a builder wrapped by read_only() or write_only() every
\* generic setter and every setter of the builder's kind can be called
C16_SettersAfterWrapping ==
    WrappedWithBudget =>
        /\ ENABLED unit /\ ENABLED format /\ ENABLED default_value
        /\ builder[1].base = "DataSchemaBuilder" => ENABLED title /\ ENABLED description
        /\ builder[1].kind = "Number" =>
              ENABLED number_minimum /\ ENABLED number_maximum /\ ENABLED number_multiple_of
        /\ builder[1].kind = "Integer" =>
              ENABLED integer_minimum /\ ENABLED integer_maximum
              /\ ENABLED integer_multiple_of
        /\ builder[1].kind = "Vec" => ENABLED min_max_items
        /\ builder[1].kind = "String" => ENABLED min_max_length /\ ENABLED pattern_content
        /\ (builder[1].kind = "Enum" /\ Len(builder[1].enumeration) < MaxEnum) =>
              ENABLED enumeration

\* the builder kinds read_only() and write_only() exist for
Wrappable ==
    {"Stateless", "Tuple", "Vec", "Number", "Integer", "Object", "String", "Enum"}

\* C17 as stated: read_only() and write_only() can be called on the Extended
\* base builder and on every specialized builder, the union builder included,
\* and on no builder one of them was applied to
C17_AsStated ==
    (builder # <<>> /\ builder[1].status = "Extended") =>
        /\ builder[1].wrap = <<>> => (ENABLED read_only /\ ENABLED write_only)
        /\ builder[1].wrap # <<>> => (~ENABLED read_only /\ ~ENABLED write_only)

\* C17 amended: read_only() and write_only() can be called on the Stateless,
\* Tuple, List, Number, Integer, Object, String and Enumeration builders,
\* not on the base builder in either phase nor on the union builder, and on
\* no builder one of them was applied to
C17_WrappedOnce ==
    builder # <<>> =>
        /\ (builder[1].wrap = <<>> /\ builder[1].kind \in Wrappable)
              => (ENABLED read_only /\ ENABLED write_only)
        /\ (builder[1].wrap # <<>> \/ builder[1].kind \notin Wrappable)
              => (~ENABLED read_only /\ ~ENABLED write_only)
        /\ Len(builder[1].wrap) <= 1

\* C17 witness: a String builder that write_only() was applied to
C17_Witness ==
    /\ builder # <<>>
    /\ builder[1].kind = "String"
    /\ builder[1].wrap = <<"WriteOnly">>
    /\ builder[1].write_only

\* the generic and human-readable fields of a builder
GenericFields(b) == <<b.unit, b.format, b.default, b.info>>

\* the builder is still open for extension
InToExtend == builder # <<>> /\ builder[1].status = "ToExtend"

\* C18 as stated: a builder in the ToExtend phase has had no generic field
\* and no human-readable field set, these setters being unavailable before
\* finish_extend
C18_AsStated ==
    InToExtend =>
        /\ GenericFields(builder[1]) = GenericFields(DataSchemaBuilderEmpty(builder[1].base))
        /\ ~ENABLED unit /\ ~ENABLED format /\ ~ENABLED default_value
        /\ ~ENABLED title /\ ~ENABLED description

\* C18 amended: on a builder in the ToExtend phase the extension operations
\* and also the generic field setters (unit, format, default value) and, on a
\* DataSchemaBuilder, the human-readable-info setters are available; the
\* specializations, enumeration, one_of, read_only and write_only are not, and
\* every operation but finish_extend leaves the builder in ToExtend
C18_ToExtendOperations ==
    /\ []((InToExtend /\ builder[1].setters < MaxSetters) =>
             /\ ENABLED unit /\ ENABLED format /\ ENABLED default_value
             /\ builder[1].base = "DataSchemaBuilder" =>
                   (ENABLED title /\ ENABLED description))
    /\ [](InToExtend =>
             /\ ENABLED finish_extend
             /\ (Len(builder[1].other) < MaxExt /\ builder[1].setters < MaxSetters)
                   => ENABLED ext_with
             /\ ~ENABLED number /\ ~ENABLED integer /\ ~ENABLED string /\ ~ENABLED bool
             /\ ~ENABLED null /\ ~ENABLED object /\ ~ENABLED tuple /\ ~ENABLED vec
             /\ ~ENABLED constant /\ ~ENABLED enumeration /\ ~ENABLED one_of
             /\ ~ENABLED read_only /\ ~ENABLED write_only)
    /\ [][(InToExtend /\ Operates /\ ~finish_extend) =>
             /\ builder'[1].status = "ToExtend"
             /\ builder'[1].kind = "Base" /\ builder'[1].wrap = <<>>
        ]_vars

\* C18 witness: a DataSchemaBuilder still open for extension that title and
\* unit were called on
C18_Witness ==
    /\ InToExtend
    /\ builder[1].info.title # <<>>
    /\ builder[1].unit # <<>>

\* C19: constant(V) gives a builder whose node has constant V, read_only
\* true, write_only false, no subtype, one_of or enumeration, and the unit,
\* format, default, human-readable fields and extension payload set before
\* the call; every node with a constant that a conversion returns is read-only,
\* not write-only, and has no subtype, one_of or enumeration
C19_ConstantNode ==
    /\ [][\A value \in Values :
             constant_value(value) =>
                LET node == IntoSchema(builder'[1])
                    b == builder[1]
                IN  /\ node.constant = <<value>>
                    /\ node.read_only /\ ~node.write_only
                    /\ node.subtype = <<>> /\ node.one_of = <<>> /\ node.enumeration = <<>>
                    /\ node.unit = b.unit /\ node.format = b.format
                    /\ node.default = b.default /\ node.other = b.other
                    /\ b.base = "DataSchemaBuilder" =>
                          /\ node.title = b.info.title
                          /\ node.description = b.info.description
        ]_vars
    /\ [](built # <<>> =>
             \A node \in Nodes(built[1]) :
                node.constant # <<>> =>
                   /\ node.read_only /\ ~node.write_only
                   /\ node.subtype = <<>> /\ node.one_of = <<>> /\ node.enumeration = <<>>)

\* C19 witness: the node of a constant whose builder had a default value and
\* a title set in the ToExtend phase or after it
C19_Witness ==
    /\ built # <<>>
    /\ built[1].constant = <<"w">>
    /\ built[1].read_only /\ ~built[1].write_only
    /\ built[1].default # <<>>
    /\ "title" \in DOMAIN built[1] /\ built[1].title # <<>>

\* the enumeration values the builder holds when it converts
EnumerationOf(b) ==
    IF IntoSchema(b).enumeration = <<>> THEN <<>> ELSE IntoSchema(b).enumeration[1]

\* C20: enumeration(v) gives a builder whose node has the enumeration values
\* of the builder it was called on, in their order, followed by v, whether v
\* is among them or not and whether read_only() or write_only() was applied
\* before; every other operation on an enumeration builder leaves the list
\* as it is
C20_EnumerationAppends ==
    /\ [][\A value \in Values :
             enumeration_value(value) =>
                IntoSchema(builder'[1]).enumeration =
                   << (IF builder[1].kind = "Enum" THEN EnumerationOf(builder[1]) ELSE <<>>)
                      \o <<value>> >>
        ]_vars
    /\ [][(Operates /\ builder[1].kind = "Enum" /\ ~enumeration) =>
             EnumerationOf(builder'[1]) = EnumerationOf(builder[1])
        ]_vars

\* C20 witness: the read-only node of an enumeration builder that the same
\* value was pushed into twice
C20_Witness ==
    /\ built # <<>>
    /\ built[1].enumeration = << <<"v", "v">> >>
    /\ built[1].read_only

----------------------------------------------------------------------------
(* Claims on the setters that take a closure, under Spec *)

\* the step is the return of the closure of a call of op
Returns(op) ==
    /\ pending # <<>>
    /\ pending[Len(pending)].op = op
    /\ pending' = SubSeq(pending, 1, Len(pending) - 1)

\* the builder the call whose closure is running was made on
Parent == pending[Len(pending)].self

\* the node of the builder a closure returns
ChildNode == IntoSchema(builder[1])

\* C21: a one_of call gives a builder whose node has in one_of the members
\* of the builder it was called on, in their order, followed by the node of
\* the builder its closure returned, a union builder's node included; no
\* other operation on a union builder changes the members, and the
\* conversion returns them as they are
C21_OneOfAppends ==
    /\ [][Returns("one_of") =>
             /\ builder'[1].kind = "OneOf"
             /\ IntoSchema(builder'[1]).one_of = << Parent.one_of \o <<ChildNode>> >>
        ]_vars
    /\ [][(Operates /\ builder[1].kind = "OneOf") =>
             builder'[1].one_of = builder[1].one_of
        ]_vars
    /\ [][(Converts /\ builder[1].kind = "OneOf") =>
             built'[1].one_of = <<builder[1].one_of>>
        ]_vars

\* C21 witness: the node of a union builder whose first one_of call returned
\* a Number builder and whose second returned a String builder
C21_Witness ==
    /\ built # <<>>
    /\ built[1].one_of # <<>>
    /\ Len(built[1].one_of[1]) = 2
    /\ IsKind(built[1].one_of[1][1], {"Number"})
    /\ IsKind(built[1].one_of[1][2], {"String"})

\* the names of the property calls made with required = true, in call order
RequiredOf(b) == SubtypeOf(b).required

\* the step converts an Object builder that property was called on
ConvertsObject ==
    /\ Converts
    /\ builder[1].kind = "Object"
    /\ builder[1].fields.properties # <<>>

C23_EmptyCollectionsAbsent ==
    /\ [][(Converts /\ builder[1].kind = "Object") =>
             /\ builder[1].fields.properties = <<>> =>
                   /\ built'[1].subtype[1].properties = <<>>
                   /\ built'[1].subtype[1].required = <<>>
             /\ builder[1].fields.required = <<>> =>
                   built'[1].subtype[1].required = <<>>
        ]_vars
    /\ [][object => builder'[1].fields.properties = <<>>
                    /\ builder'[1].fields.required = <<>>]_vars
    /\ [][(Returns("property") /\ ~pending[Len(pending)].required
           /\ Parent.fields.required = <<>>) =>
             /\ builder'[1].fields.required = <<>>
             /\ RequiredOf(builder'[1]) = <<>>
        ]_vars
    /\ [](built # <<>> =>
             \A n \in Nodes(built[1]) :
                IsKind(n, {"Object"}) =>
                   /\ n.subtype[1].properties # << <<>> >>
                   /\ n.subtype[1].required # << <<>> >>)

\* C23 witness: the node of an Object builder whose one property call had
\* required = false
C23_Witness ==
    /\ built # <<>>
    /\ IsKind(built[1], {"Object"})
    /\ built[1].subtype[1].properties # <<>>
    /\ built[1].subtype[1].required = <<>>

\* C24: the node of a Tuple builder has items present as the ordered list of
\* the nodes the closures of its append calls returned, in call order, the
\* empty list when append was not called, and never as the single item
C24_TupleItemsInOrder ==
    /\ [][Returns("append") =>
             SubtypeOf(builder'[1]).items =
                <<[tag |-> "Vec", vec |-> Parent.fields.items \o <<ChildNode>>]>>
        ]_vars
    /\ [][tuple => SubtypeOf(builder'[1]).items = <<[tag |-> "Vec", vec |-> <<>>]>>]_vars
    /\ [][(Operates /\ builder[1].kind = "Tuple") =>
             builder'[1].fields.items = builder[1].fields.items
        ]_vars
    /\ [][(Converts /\ builder[1].kind = "Tuple") =>
             built'[1].subtype[1].items =
                <<[tag |-> "Vec", vec |-> builder[1].fields.items]>>
        ]_vars

\* C24 witness: the node of a Tuple builder whose first append returned an
\* Integer builder and whose second returned a Boolean builder
C24_Witness ==
    /\ built # <<>>
    /\ IsKind(built[1], {"Array"})
    /\ built[1].subtype[1].items # <<>>
    /\ built[1].subtype[1].items[1].tag = "Vec"
    /\ Len(built[1].subtype[1].items[1].vec) = 2
    /\ IsKind(built[1].subtype[1].items[1].vec[1], {"Integer"})
    /\ IsKind(built[1].subtype[1].items[1].vec[2], {"Boolean"})

\* C25: the node of a List builder has items absent when set_item was not
\* called, and else items present as the single item that is the node the
\* closure of the last set_item call returned; it never has the ordered list
C25_ListItemIsLastSet ==
    /\ [][Returns("set_item") =>
             SubtypeOf(builder'[1]).items = <<[tag |-> "Elem", elem |-> ChildNode]>>
        ]_vars
    /\ [][vec => SubtypeOf(builder'[1]).items = <<>>]_vars
    /\ [][(Operates /\ builder[1].kind = "Vec") =>
             builder'[1].fields.item = builder[1].fields.item
        ]_vars
    /\ [][(Converts /\ builder[1].kind = "Vec") =>
             built'[1].subtype[1].items =
                IF builder[1].fields.item = <<>> THEN <<>>
                ELSE <<[tag |-> "Elem", elem |-> builder[1].fields.item[1]]>>
        ]_vars

\* C25 witness: a List builder whose two calls were both set_item, the
\* second one's closure returning a String builder
C25_Witness ==
    /\ builder # <<>>
    /\ pending = <<>>
    /\ builder[1].kind = "Vec"
    /\ builder[1].setters = 2
    /\ builder[1].other = <<>>
    /\ builder[1].fields.min_items = <<>> /\ builder[1].fields.max_items = <<>>
    /\ GenericFields(builder[1]) = GenericFields(DataSchemaBuilderEmpty(builder[1].base))
    /\ builder[1].fields.item # <<>>
    /\ IsKind(builder[1].fields.item[1], {"String"})

----------------------------------------------------------------------------
(* Claims on the wrappers and the conversions of the builders, under Spec *)

\* C26: a write_only() call gives a builder whose node is the node of the
\* builder it was called on with write_only set to true: read_only is false
\* and every other field is the same
C26_WriteOnlyKeepsFields ==
    [][write_only =>
         /\ IntoSchema(builder'[1]) = [IntoSchema(builder[1]) EXCEPT !.write_only = TRUE]
         /\ IntoSchema(builder'[1]).write_only
         /\ ~IntoSchema(builder'[1]).read_only
    ]_vars

\* C26 witness: the node of a write-only Number builder with a unit and a
\* minimum
C26_Witness ==
    /\ built # <<>>
    /\ built[1].write_only /\ ~built[1].read_only
    /\ IsKind(built[1], {"Number"})
    /\ built[1].unit # <<>>
    /\ built[1].subtype[1].minimum # <<>>

\* the builder closed for extension and specialized into ty with no other call
Specialized(ty) ==
    [DataSchemaBuilderDefault("DataSchemaBuilder") EXCEPT
        !.kind = "Stateless", !.fields = [ty |-> <<ty>>]]

\* C27: the checked conversion of a builder closed for extension and
\* specialized into null or bool with no other call succeeds and gives a node
\* whose subtype is that kind, whose read_only and write_only are false and
\* whose attype, title, titles, description, descriptions, constant, default,
\* unit, one_of, enumeration and format are absent
C27_StatelessBaseline ==
    [][\A ty \in {"Null", "Boolean"} :
          (TryIntoDataSchema /\ builder[1] = Specialized(ty)) =>
             /\ converted'[1].ok
             /\ converted'[1].value.subtype = <<[type |-> ty]>>
             /\ ~converted'[1].value.read_only /\ ~converted'[1].value.write_only
             /\ \A f \in {"attype", "title", "titles", "description", "descriptions",
                          "constant", "default", "unit", "one_of", "enumeration",
                          "format"} :
                   converted'[1].value[f] = <<>>
    ]_vars

\* C27 witness: the checked node of a builder that went through
\* finish_extend and null alone
C27_Witness ==
    /\ converted # <<>> /\ converted[1].ok
    /\ converted[1].value.subtype = <<[type |-> "Null"]>>
    /\ built = <<[UncheckedDataSchemaDefault EXCEPT !.subtype = <<[type |-> "Null"]>>]>>

\* the array-level or object-level payload of a Tuple, List or Object builder
SubtypePayload(b) ==
    IF b.kind \in {"Tuple", "Vec", "Object"} THEN b.fields.other ELSE <<>>

\* the array-level or object-level payload of a node
SubtypePayloadOf(node) ==
    IF IsKind(node, {"Array", "Object"}) THEN node.subtype[1].other ELSE <<>>

\* C29: ext(t) puts t after the payloads folded in before; tuple_ext, vec_ext
\* and object_ext give a builder whose array or object subtype carries the
\* payload their closure built; no other operation, closure calls included,
\* changes a payload of the builder, and the conversions to the unchecked and
\* to the checked form return the payloads as the builder held them
C29_PayloadsKept ==
    /\ [][\A t \in ExtPayloads : ext(t) => builder'[1].other = builder[1].other \o <<t>>
        ]_vars
    /\ [][\A other \in SubtypePayloads :
             (tuple_ext_with(other) \/ vec_ext_with(other) \/ object_ext_with(other)) =>
                /\ SubtypeOf(builder'[1]).other = other
                /\ IntoSchema(builder'[1]).other = builder[1].other
        ]_vars
    /\ [][(Operates /\ ~ext_with) =>
             /\ builder'[1].other = builder[1].other
             /\ builder[1].kind \in {"Tuple", "Vec", "Object"} =>
                   SubtypePayload(builder'[1]) = SubtypePayload(builder[1])
        ]_vars
    /\ [][\A op \in {"append", "set_item", "property", "one_of"} :
             Returns(op) =>
                /\ builder'[1].other = Parent.other
                /\ SubtypePayload(builder'[1]) = SubtypePayload(Parent)
        ]_vars
    /\ [][Converts =>
             /\ built'[1].other = builder[1].other
             /\ SubtypePayloadOf(built'[1]) = SubtypePayload(builder[1])
        ]_vars
    /\ []((built # <<>> /\ converted # <<>> /\ converted[1].ok) =>
             /\ converted[1].value.other = built[1].other
             /\ SubtypePayloadOf(converted[1].value) = SubtypePayloadOf(built[1]))

\* C29 witness: the checked node of a builder that went through ext(ExtB)
\* and then ext(ExtA)
C29_Witness ==
    /\ converted # <<>> /\ converted[1].ok
    /\ converted[1].value.other = <<"ExtB", "ExtA">>

\* the step is a call of append, set_item, property or one_of, up to the
\* start of its closure
Calls ==
    /\ builder # <<>>
    /\ Len(pending') = Len(pending) + 1
    /\ SubSeq(pending', 1, Len(pending)) = pending

\* the fields of a builder but the count kept for the bound of the model
Fields(b) == [f \in DOMAIN b \ {"setters"} |-> b[f]]

\* the field of a builder that a call of op adds the child to
ChildFields(op) ==
    CASE op = "append" -> {"items"}
      [] op = "set_item" -> {"item"}
      [] op = "property" -> {"properties", "required"}
      [] op = "one_of" -> {}

\* how many children a builder holds in the field a call of op adds to
ChildCount(b, op) ==
    CASE op = "append" -> Len(b.fields.items)
      [] op = "set_item" -> Len(b.fields.item)
      [] op = "property" -> Len(b.fields.properties)
      [] op = "one_of" -> Len(b.one_of)

\* C30: a call of append, set_item, property or one_of runs its closure, once
\* and before it returns, on a new empty DataSchemaBuilder open for extension
\* that has no field of the builder the call is made on; while the closure
\* runs that builder is left as it is, and when the closure returns the call
\* gives it back with the node of the closure's builder added and no other
\* field changed
C30_ClosureOnFreshBuilder ==
    /\ [][Calls =>
             /\ Fields(builder'[1]) = Fields(DataSchemaBuilderEmpty("DataSchemaBuilder"))
             /\ builder'[1].status = "ToExtend"
             /\ pending'[Len(pending')].self = builder[1]
        ]_vars
    /\ [][(builder # <<>> /\ builder' # <<>>) =>
             \/ pending' = pending
             \/ Calls
             \/ pending' = SubSeq(pending, 1, Len(pending) - 1)
        ]_vars
    /\ [][\A op \in {"append", "set_item", "property", "one_of"} :
             Returns(op) =>
                /\ \A f \in DOMAIN Parent \ {"setters", "fields", "one_of", "kind"} :
                      builder'[1][f] = Parent[f]
                /\ op # "one_of" =>
                      /\ builder'[1].one_of = Parent.one_of
                      /\ builder'[1].kind = Parent.kind
                      /\ \A f \in DOMAIN Parent.fields \ ChildFields(op) :
                            builder'[1].fields[f] = Parent.fields[f]
                /\ op = "one_of" => builder'[1].fields = Parent.fields
                /\ ChildCount(builder'[1], op) =
                      IF op = "set_item" THEN 1 ELSE ChildCount(Parent, op) + 1
        ]_vars
    /\ [](pending # <<>> => builder # <<>>)

\* C30 witness: a read-only Tuple builder with a unit whose append returned
\* a builder that has no unit and is not read-only
C30_Witness ==
    /\ builder # <<>>
    /\ pending = <<>>
    /\ builder[1].kind = "Tuple"
    /\ builder[1].unit # <<>>
    /\ builder[1].read_only
    /\ Len(builder[1].fields.items) = 1
    /\ builder[1].fields.items[1].unit = <<>>
    /\ ~builder[1].fields.items[1].read_only

----------------------------------------------------------------------------
(* Claims on the two base builders, under Spec *)

\* the builder of the other base type with the fields of b
OtherBase(b) ==
    [b EXCEPT !.base = IF @ = "DataSchemaBuilder" THEN "PartialDataSchemaBuilder"
                       ELSE "DataSchemaBuilder"]

\* the builder the caller started on
Root == IF pending = <<>> THEN builder[1] ELSE pending[1].self

\* the builder held and the running calls, had the caller started on the
\* other base type and made the same calls
OnOtherBase(held) ==
    IF held.pending = <<>>
    THEN [builder |-> <<OtherBase(held.builder[1])>>, pending |-> <<>>]
    ELSE [builder |-> held.builder,
          pending |-> [held.pending EXCEPT ![1].self = OtherBase(@)]]

Held == [builder |-> builder, pending |-> pending]

\* the builder operations but the human-readable setters and the conversions
BuilderCalls ==
    { "ext_with", "finish_extend", "unit", "format", "default_value",
      "tuple", "tuple_ext", "vec", "vec_ext", "object", "object_ext", "bool",
      "null", "number", "integer", "string", "constant", "enumeration",
      "one_of", "read_only", "write_only", "append", "set_item", "min_max_items",
      "number_minimum", "number_maximum", "number_multiple_of",
      "integer_minimum", "integer_maximum", "integer_multiple_of",
      "property", "min_max_length", "pattern_content" }

\* the step is a call of the operation of that name
BuilderCall(name) ==
    \/ name = "ext_with" /\ ext_with
    \/ name = "finish_extend" /\ finish_extend
    \/ name = "unit" /\ unit
    \/ name = "format" /\ format
    \/ name = "default_value" /\ default_value
    \/ name = "tuple" /\ tuple
    \/ name = "tuple_ext" /\ tuple_ext
    \/ name = "vec" /\ vec
    \/ name = "vec_ext" /\ vec_ext
    \/ name = "object" /\ object
    \/ name = "object_ext" /\ object_ext
    \/ name = "bool" /\ bool
    \/ name = "null" /\ null
    \/ name = "number" /\ number
    \/ name = "integer" /\ integer
    \/ name = "string" /\ string
    \/ name = "constant" /\ constant
    \/ name = "enumeration" /\ enumeration
    \/ name = "one_of" /\ one_of
    \/ name = "read_only" /\ read_only
    \/ name = "write_only" /\ write_only
    \/ name = "append" /\ append
    \/ name = "set_item" /\ set_item
    \/ name = "min_max_items" /\ min_max_items
    \/ name = "number_minimum" /\ number_minimum
    \/ name = "number_maximum" /\ number_maximum
    \/ name = "number_multiple_of" /\ number_multiple_of
    \/ name = "integer_minimum" /\ integer_minimum
    \/ name = "integer_maximum" /\ integer_maximum
    \/ name = "integer_multiple_of" /\ integer_multiple_of
    \/ name = "property" /\ property
    \/ name = "min_max_length" /\ min_max_length
    \/ name = "pattern_content" /\ pattern_content

\* the comparison of one call made on the two base types, as steps that are
\* not steps of the program: the caller notes what it holds (in built) ...
Notes ==
    /\ builder # <<>>
    /\ built' = <<Held>>
    /\ UNCHANGED <<schema, calls, checkResult, converted, builder, pending>>

\* ... and, after the call, notes the outcome and goes back to what it held,
\* on the other base type
Retries ==
    /\ builder # <<>>
    /\ builder' = OnOtherBase(built[1]).builder
    /\ pending' = OnOtherBase(built[1]).pending
    /\ built' = <<Held>>
    /\ UNCHANGED <<schema, calls, checkResult, converted>>

\* the outcome of the call on the other base type is the noted outcome
Matches == Held = OnOtherBase(built[1])

\* every outcome of the call of that name on what the caller holds is an
\* outcome of the same call on the other base type
Mirrored(name) ==
    ~ENABLED (Notes /\
        (ENABLED (BuilderCall(name) /\
            (~ENABLED (Retries /\
                (ENABLED (BuilderCall(name) /\ Matches'))'))'))')

\* C31: as long as no human-readable setter is used, every operation on a
\* PartialDataSchemaBuilder has the outcome it has on a DataSchemaBuilder
\* with the same fields, and the other way round, the human-readable setters
\* do not exist for the partial builder, and the PartialDataSchema a partial
\* builder converts into has the constant, default, unit, one_of,
\* enumeration, read_only, write_only, format, subtype and extension payload
\* of the unchecked node the DataSchemaBuilder converts into
C31_PartialBehavesLikeFull ==
    (builder # <<>> /\ Root.info = HumanReadableInfoDefault) =>
        /\ \A name \in BuilderCalls : Mirrored(name)
        /\ (pending = <<>> /\ builder[1].base = "PartialDataSchemaBuilder") =>
              ~ENABLED title /\ ~ENABLED description
        /\ (pending = <<>> /\ IsConvertible(builder[1])) =>
              /\ AsPartial(IntoSchema(builder[1]))
                     = AsPartial(IntoSchema(OtherBase(builder[1])))
              /\ builder[1].base = "PartialDataSchemaBuilder" =>
                    DOMAIN IntoSchema(builder[1]) = DOMAIN PartialDataSchemaDefault

\* C31 witness: the PartialDataSchema of a partial List builder that a format
\* was set on and set_item was called on
C31_Witness ==
    /\ built # <<>>
    /\ "titles" \notin DOMAIN built[1]
    /\ IsKind(built[1], {"Array"})
    /\ built[1].format # <<>>
    /\ built[1].subtype[1].items # <<>>

----------------------------------------------------------------------------
(* Claims on the order and the extent of validation, under SpecCheck *)

\* the error of the rule the node's own subtype breaks, NaN bounds coming
\* before the range and the range before multiple_of
OwnError(node) ==
    IF HasNanBound(node) THEN "NanMinMax"
    ELSE IF EmptyRange(node) \/ BadItemCounts(node) THEN "InvalidMinMax"
    ELSE IF BadMultipleOf(node) THEN "InvalidMultipleOf"
    ELSE "Ok"

\* the node of the check() call that is running
Checked == calls[Len(calls)].node

\* the running check() call has just been made
JustCalled ==
    /\ calls # <<>>
    /\ calls[Len(calls)].pc = "subtype"
    /\ calls[Len(calls)].stack = <<>>
    /\ calls[Len(calls)].subtype = Checked.subtype

\* C32: check() on a node whose own subtype breaks a rule returns the error
\* of that rule, whatever its array items, object properties and union
\* members break: at the root once check has returned, and for every nested
\* check() call in the step that follows the call
C32_OwnSubtypeFirst ==
    /\ []((CheckDone /\ OwnError(schema) # "Ok") => CheckError = OwnError(schema))
    /\ [][(JustCalled /\ OwnError(Checked) # "Ok" /\ calls' # calls) =>
             /\ calls' = <<>>
             /\ checkResult' = <<OwnError(Checked)>>
        ]_vars

\* C32 witness: InvalidMinMax for a root array whose item counts are out of
\* order and whose items have a zero multiple_of and a NaN bound
C32_Witness ==
    /\ CheckError = "InvalidMinMax"
    /\ BadItemCounts(schema)
    /\ Cardinality({OwnError(c) : c \in Kids(schema)}) = 2
    /\ \A c \in Kids(schema) : OwnError(c) \notin {"Ok", "InvalidMinMax"}

\* the nodes a subtype holds, one by one: the item or the items of an array,
\* the values of the properties of an object
HeldBy(subtype) ==
    IF subtype = <<>> THEN <<>>
    ELSE IF subtype[1].type = "Array" /\ subtype[1].items # <<>>
    THEN IF subtype[1].items[1].tag = "Elem" THEN <<subtype[1].items[1].elem>>
         ELSE subtype[1].items[1].vec
    ELSE IF subtype[1].type = "Object" /\ subtype[1].properties # <<>>
    THEN CHOOSE order \in ValueOrders(subtype[1].properties[1]) : TRUE
    ELSE <<>>

\* the children of a node, one by one: union members, then the nodes its
\* subtype holds
KidsOf(node) ==
    (IF node.one_of = <<>> THEN <<>> ELSE node.one_of[1]) \o HeldBy(node.subtype)

RECURSIVE SubtypesOf(_)
RECURSIVE SubtypesOfAll(_)
\* the subtype of every node of the tree rooted at node, one entry for each node
SubtypesOf(node) == <<node.subtype>> \o SubtypesOfAll(KidsOf(node))

\* the same for the trees rooted at the nodes of a sequence
SubtypesOfAll(nodes) ==
    IF nodes = <<>> THEN <<>>
    ELSE SubtypesOf(Head(nodes)) \o SubtypesOfAll(Tail(nodes))

\* how many times each element occurs in a sequence
Occurrences(seq) ==
    [x \in Range(seq) |-> Cardinality({i \in 1..Len(seq) : seq[i] = x})]

\* two sequences hold the same elements, each as many times
SameOccurrences(a, b) ==
    \A s \in {a} : \A t \in {b} : Occurrences(s) = Occurrences(t)

\* the subtypes a running check() call has still to examine: the one the loop
\* holds and those below it, those of the trees on its work list, and those
\* of the union members it has not called check() on
StillToExamineBy(f) ==
    (IF f.pc = "subtype"
     THEN <<f.subtype>> \o SubtypesOfAll(HeldBy(f.subtype))
     ELSE <<>>)
    \o SubtypesOfAll(f.stack)
    \o (IF f.node.one_of = <<>> THEN <<>>
        ELSE SubtypesOfAll(SubSeq(f.node.one_of[1], f.idx, Len(f.node.one_of[1]))))

RECURSIVE StillToExamineIn(_)
\* the subtypes the running check() calls have still to examine
StillToExamineIn(frames) ==
    IF frames = <<>> THEN <<>>
    ELSE StillToExamineBy(Head(frames)) \o StillToExamineIn(Tail(frames))

StillToExamine == StillToExamineIn(calls)

\* C33: check, once called, returns, with Ok or with one error that it never
\* changes; when it is called every subtype of the tree is still to examine,
\* one time for each node, every turn of the loop that does not fail takes
\* off exactly the subtype it examined, nothing else takes off or adds any,
\* and check returns Ok only when none is left
C33_TerminatesExaminingOnce ==
    /\ (calls # <<>>) ~> CheckDone
    /\ [](CheckDone => calls = <<>> /\ CheckError \in
             {"Ok", "InvalidMinMax", "NanMinMax", "InvalidMultipleOf"})
    /\ [][checkResult # <<>> => checkResult' = checkResult]_vars
    /\ [][calls' # calls =>
             IF calls = <<>>
             THEN SameOccurrences(StillToExamine', SubtypesOf(schema))
             ELSE IF checkResult' # checkResult /\ checkResult'[1] # "Ok"
             THEN TRUE
             ELSE IF calls[Len(calls)].pc = "subtype"
             THEN SameOccurrences(StillToExamine,
                                  <<calls[Len(calls)].subtype>> \o StillToExamine')
             ELSE SameOccurrences(StillToExamine', StillToExamine)
        ]_vars

\* C33 witness: check returned Ok on a union whose second member is a tuple,
\* in a tree where the same node occurs more than once
C33_Witness ==
    /\ CheckError = "Ok"
    /\ schema.one_of # <<>>
    /\ Len(schema.one_of[1]) = 2
    /\ IsKind(schema.one_of[1][2], {"Array"})
    /\ Cardinality(Kids(schema.one_of[1][2])) >= 1
    /\ Len(SubtypesOf(schema)) > Cardinality(Nodes(schema))

\* the kinds validation has no rule for
Unvalidated == {"String", "Boolean", "Null"}

\* C34: check returns Ok on every String, Boolean or Null node that has no
\* union members, whatever its min_length, max_length, pattern, content
\* encoding and media type are; the turn of the loop that examines such a
\* subtype, at the root or nested, never returns an error; and whenever check
\* returns an error some Array, Number or Integer node of the tree breaks a
\* rule
C34_StringFieldsNotValidated ==
    /\ []((CheckDone /\ IsKind(schema, Unvalidated) /\ schema.one_of = <<>>) =>
             CheckError = "Ok")
    /\ [][(/\ calls # <<>>
           /\ calls[Len(calls)].pc = "subtype"
           /\ calls[Len(calls)].subtype # <<>>
           /\ calls[Len(calls)].subtype[1].type \in Unvalidated
           /\ calls' # calls) =>
             checkResult' = <<>> /\ calls' # <<>>
        ]_vars
    /\ []((CheckDone /\ CheckError # "Ok") =>
             \E n \in Nodes(schema) :
                IsKind(n, {"Array", "Number", "Integer"}) /\ OwnError(n) = CheckError)

\* C34 witness: check returned Ok on a String whose min_length is above its
\* max_length and that has a pattern, a content encoding and a media type
C34_Witness ==
    /\ CheckError = "Ok"
    /\ IsKind(schema, {"String"})
    /\ schema.subtype[1].min_length = <<2>>
    /\ schema.subtype[1].max_length = <<1>>
    /\ schema.subtype[1].pattern # <<>>
    /\ schema.subtype[1].content_encoding # <<>>
    /\ schema.subtype[1].content_media_type # <<>>

\* the multiple_of of a Number node is NaN
NanMultipleOf(node) ==
    /\ IsKind(node, {"Number"})
    /\ node.subtype[1].multiple_of # <<>>
    /\ node.subtype[1].multiple_of[1].nan

\* C38: check on a Number node without union members whose multiple_of is
\* NaN returns what its bounds alone give: NanMinMax for a NaN bound,
\* InvalidMinMax for an empty range, Ok otherwise; the turn of the loop that
\* examines a Number subtype with a NaN multiple_of never returns
\* InvalidMultipleOf; check returns InvalidMultipleOf only on a tree holding
\* a Number whose multiple_of is a number not above zero, and NanMinMax only
\* on a tree holding a Number with a NaN bound
C38_NanMultipleOfPasses ==
    /\ []((CheckDone /\ NanMultipleOf(schema) /\ schema.one_of = <<>>) =>
             CheckError = IF HasNanBound(schema) THEN "NanMinMax"
                          ELSE IF EmptyRange(schema) THEN "InvalidMinMax"
                          ELSE "Ok")
    /\ [][(/\ calls # <<>>
           /\ calls[Len(calls)].pc = "subtype"
           /\ calls[Len(calls)].subtype # <<>>
           /\ calls[Len(calls)].subtype[1].type = "Number"
           /\ calls[Len(calls)].subtype[1].multiple_of # <<>>
           /\ calls[Len(calls)].subtype[1].multiple_of[1].nan
           /\ calls' # calls) =>
             checkResult' # <<"InvalidMultipleOf">>
        ]_vars
    /\ []((CheckDone /\ CheckError = "InvalidMultipleOf") =>
             \E n \in Nodes(schema) :
                /\ IsKind(n, {"Number"})
                /\ n.subtype[1].multiple_of # <<>>
                /\ ~n.subtype[1].multiple_of[1].nan
                /\ n.subtype[1].multiple_of[1].v <= 0)
    /\ []((CheckDone /\ CheckError = "NanMinMax") =>
             \E n \in Nodes(schema) :
                /\ IsKind(n, {"Number"})
                /\ \/ NanBound(n.subtype[1].minimum)
                   \/ NanBound(n.subtype[1].maximum))

\* C38 witness: check returned Ok on a Number with bounds and a NaN
\* multiple_of
C38_Witness ==
    /\ CheckError = "Ok"
    /\ NanMultipleOf(schema)
    /\ schema.subtype[1].minimum # <<>>
    /\ schema.subtype[1].maximum # <<>>

----------------------------------------------------------------------------
(* Claims on the plain setters and on the extension operations, under Spec *)

\* the values the setter of a generic field is called with
GenericInputs(field) ==
    CASE field = "unit" -> Units
      [] field = "format" -> Formats
      [] field = "default" -> Values

\* the plain setters of the specialized builders: kind, field and values
PlainSetters ==
    {<<"Vec", f, U32Inputs>> : f \in {"min_items", "max_items"}}
    \cup {<<"String", f, U32Inputs>> : f \in {"min_length", "max_length"}}
    \cup {<<"String", f, Strings>> :
             f \in {"pattern", "content_encoding", "content_media_type"}}
    \cup {<<"Number", "multiple_of", F64Inputs \cup {F(0)}>>,
          <<"Integer", "multiple_of", U32Inputs>>}

\* C35: a call of unit, format or default_value, on a base builder, a
\* specialized builder or a wrapper, leaves in that field the value of the
\* call, whatever the field held, and changes no other field of the builder
\* or of its node; a call of min_items, max_items, min_length, max_length,
\* pattern, content_encoding, content_media_type or multiple_of leaves in that
\* field of the subtype the value of the call and changes nothing else of the
\* node; no other operation changes one of these fields, and the conversion
\* returns them as the builder holds them
C35_SettersLastWriteWins ==
    /\ [][\A field \in {"unit", "format", "default"} :
             \A value \in GenericInputs(field) :
                SetGeneric(field, value) =>
                   /\ Fields(builder'[1]) = [Fields(builder[1]) EXCEPT ![field] = <<value>>]
                   /\ IsConvertible(builder[1]) =>
                         IntoSchema(builder'[1]) =
                            [IntoSchema(builder[1]) EXCEPT ![field] = <<value>>]
        ]_vars
    /\ [][\A setter \in PlainSetters :
             \A value \in setter[3] :
                SetFieldTo(setter[1], setter[2], value) =>
                   /\ IntoSchema(builder'[1]) =
                         [IntoSchema(builder[1]) EXCEPT !.subtype[1][setter[2]] = <<value>>]
                   /\ Fields(builder'[1]) =
                         [Fields(builder[1]) EXCEPT !.fields[setter[2]] = <<value>>]
        ]_vars
    /\ [][Operates =>
             /\ \A field \in {"unit", "format", "default"} :
                   builder'[1][field] # builder[1][field] =>
                      /\ builder'[1][field] # <<>>
                      /\ SetGeneric(field, builder'[1][field][1])
             /\ builder'[1].kind = builder[1].kind =>
                   \A setter \in PlainSetters :
                      (/\ builder[1].kind = setter[1]
                       /\ builder'[1].fields[setter[2]] # builder[1].fields[setter[2]]) =>
                          /\ builder'[1].fields[setter[2]] # <<>>
                          /\ SetFieldTo(setter[1], setter[2],
                                        builder'[1].fields[setter[2]][1])
        ]_vars
    /\ [][\A op \in {"append", "set_item", "property", "one_of"} :
             Returns(op) =>
                /\ \A field \in {"unit", "format", "default"} :
                      builder'[1][field] = Parent[field]
                /\ \A setter \in PlainSetters :
                      Parent.kind = setter[1] =>
                         builder'[1].fields[setter[2]] = Parent.fields[setter[2]]
        ]_vars
    /\ [][Converts =>
             /\ \A field \in {"unit", "format", "default"} :
                   built'[1][field] = builder[1][field]
             /\ \A setter \in PlainSetters :
                   builder[1].kind = setter[1] =>
                      built'[1].subtype[1][setter[2]] = builder[1].fields[setter[2]]
        ]_vars

\* C35 witness: a write-only List builder whose two calls were both
\* max_items, the later one with 1
C35_Witness ==
    /\ builder # <<>>
    /\ pending = <<>>
    /\ builder[1].kind = "Vec"
    /\ builder[1].wrap = <<"WriteOnly">>
    /\ builder[1].setters = 2
    /\ builder[1].fields =
          [item |-> <<>>, min_items |-> <<>>, max_items |-> <<1>>, other |-> <<>>]
    /\ builder[1].other = <<>>
    /\ GenericFields(builder[1]) = GenericFields(DataSchemaBuilderEmpty(builder[1].base))

\* C36: ext and ext_with change the extension payload and nothing else of
\* the builder, finish_extend changes the phase and nothing else, so unit,
\* format, the default value and the human-readable info set before them are
\* still held after them, and the builder finish_extend returns converts,
\* once specialized, to a node holding them
C36_ExtensionKeepsFields ==
    /\ [][\A t \in ExtPayloads :
             ext(t) =>
                /\ Fields(builder'[1]) = [Fields(builder[1]) EXCEPT !.other = Append(@, t)]
                /\ GenericFields(builder'[1]) = GenericFields(builder[1])
        ]_vars
    /\ [][finish_extend =>
             /\ Fields(builder'[1]) = [Fields(builder[1]) EXCEPT !.status = "Extended"]
             /\ GenericFields(builder'[1]) = GenericFields(builder[1])
             /\ (ENABLED string)'
             /\ \A st \in {[min_length |-> None, max_length |-> None, pattern |-> None,
                            content_encoding |-> None, content_media_type |-> None]} :
                   LET node == IntoSchema([builder'[1] EXCEPT !.kind = "String", !.fields = st])
                   IN  /\ node.unit = builder[1].unit
                       /\ node.format = builder[1].format
                       /\ node.default = builder[1].default
                       /\ node.other = builder[1].other
                       /\ builder[1].base = "DataSchemaBuilder" =>
                             \A f \in DOMAIN HumanReadableInfoDefault :
                                node[f] = builder[1].info[f]
        ]_vars
    /\ [][(Operates /\ builder[1].status = "ToExtend" /\ builder'[1].status = "Extended") =>
             finish_extend]_vars

\* C36 witness: the node of a builder that had its unit set and a payload
\* folded in before finish_extend
C36_Witness ==
    /\ built # <<>>
    /\ built[1].unit # None
    /\ built[1].other # <<>>

\* how many entries of seq are x
CountOf(x, seq) == Cardinality({i \in 1..Len(seq) : seq[i] = x})

\* the names of the pairs of property calls
NamesOf(pairs) == {pairs[i][1] : i \in 1..Len(pairs)}

\* C37: a property call with a name an earlier call on the same Object
\* builder used adds no entry to the properties of the node: the entry of
\* that name then holds the node of the later closure, the other entries are
\* as before, and required holds the name once more if the call had
\* required = true and as often as before otherwise; so the node has one
\* entry for each name, holding the child of the last call with it
C37_RepeatedPropertyName ==
    /\ [][(Returns("property") /\ Caller.name \in NamesOf(Parent.fields.properties)) =>
             LET name == Caller.name
                 before == IntoSchema(Parent).subtype[1]
                 after == IntoSchema(builder'[1]).subtype[1]
             IN  /\ DOMAIN after.properties[1] = DOMAIN before.properties[1]
                 /\ after.properties[1] = [before.properties[1] EXCEPT ![name] = ChildNode]
                 /\ after.required # <<>> =>
                       CountOf(name, after.required[1]) =
                          CountOf(name, Parent.fields.required)
                             + (IF Caller.required THEN 1 ELSE 0)
                 /\ after.required = <<>> =>
                       ~Caller.required /\ Parent.fields.required = <<>>
        ]_vars
    /\ [](\A b \in Range(builder) \cup {pending[i].self : i \in 1..Len(pending)} :
             (b.kind = "Object" /\ b.fields.properties # <<>>) =>
                LET pairs == b.fields.properties
                    properties == IntoSchema(b).subtype[1].properties[1]
                IN  /\ DOMAIN properties = NamesOf(pairs)
                    /\ \A i \in 1..Len(pairs) :
                          (\A j \in (i + 1)..Len(pairs) : pairs[j][1] # pairs[i][1]) =>
                             properties[pairs[i][1]] = pairs[i][2]
                    /\ \A name \in NamesOf(pairs) :
                          CountOf(name, b.fields.required)
                             <= CountOf(name, [i \in 1..Len(pairs) |-> pairs[i][1]]))

\* C37 witness: an Object builder that property("a", true, ..) was called on
\* twice, with closures returning different nodes
C37_Witness ==
    /\ builder # <<>>
    /\ pending = <<>>
    /\ builder[1].kind = "Object"
    /\ Len(builder[1].fields.properties) = 2
    /\ builder[1].fields.properties[1][1] = "a"
    /\ builder[1].fields.properties[2][1] = "a"
    /\ builder[1].fields.properties[1][2] # builder[1].fields.properties[2][2]
    /\ builder[1].fields.required = <<"a", "a">>
    /\ DOMAIN IntoSchema(builder[1]).subtype[1].properties[1] = {"a"}
    /\ IntoSchema(builder[1]).subtype[1].properties[1]["a"] = builder[1].fields.properties[2][2]

----------------------------------------------------------------------------
(* Claims on the wrappers of a base builder, under SpecInto *)

\* the fields of a builder besides the wrappers and the two flags
BesidesFlags(b) == [f \in DOMAIN b \ {"wrap", "read_only", "write_only"} |-> b[f]]

\* C39: the base builder a ReadOnly wrapper of a base builder converts into
\* is the wrapped builder with read_only true and every other field as it
\* was; the one a WriteOnly wrapper converts into is the wrapped builder
\* with write_only true and every other field, read_only included, as it
\* was; through nested wrappers each flag is true if it was true or its
\* wrapper is among them, and nothing else changes
C39_WrapperIntoBuilder ==
    [][into_builder =>
          LET b == builder[1]
              r == builder'[1]
          IN  /\ b.wrap = <<"ReadOnly">> =>
                    r = [b EXCEPT !.wrap = <<>>, !.read_only = TRUE]
              /\ b.wrap = <<"WriteOnly">> =>
                    r = [b EXCEPT !.wrap = <<>>, !.write_only = TRUE]
              /\ r.wrap = <<>>
              /\ r.read_only = (b.read_only \/ "ReadOnly" \in Range(b.wrap))
              /\ r.write_only = (b.write_only \/ "WriteOnly" \in Range(b.wrap))
              /\ BesidesFlags(r) = BesidesFlags(b)
    ]_vars

\* C39 witness: a DataSchemaBuilder with a unit and a title that came out of
\* a WriteOnly wrapper with read_only still true
C39_Witness ==
    /\ builder # <<>>
    /\ builder[1].base = "DataSchemaBuilder"
    /\ builder[1].wrap = <<>>
    /\ builder[1].write_only
    /\ builder[1].read_only
    /\ builder[1].unit # None
    /\ builder[1].info.title # None

====
